---- MODULE Spec2Model ----
(***************************************************************************)
(* Behavioural model of the agent-kits command-line scripts:               *)
(*   workspace_analyzer.py  (skill filtering recommendations)              *)
(*   skills_manager.py      (enable / disable of skill directories)        *)
(*   checklist.py           (priority-ordered check runner)                *)
(*   verify_all.py          (full verification suite)                      *)
(*   security_scan.py       (findings summary and exit status)             *)
(*   validate_kit.py        (kit structure validator)                      *)
(*   techstack_scanner.py   (technology profile of a workspace)            *)
(*   i18n_checker.py, a11y_checker.py, api_validator.py, seo_checker.py,   *)
(*   schema_validator.py    (linters: report and exit status)              *)
(* Each script is one sequential process; its position is a pc variable.   *)
(* Python strings whose characters matter (file names, dependency names,   *)
(* skill names) are tuples of one-character strings.                       *)
(***************************************************************************)
EXTENDS Integers, Sequences, FiniteSets, TLC

\* ------------------------------------------------------------------------
\* Bounds of the model
\* ------------------------------------------------------------------------

\* Largest number of entries (files or directories) in a workspace root.
MaxMarkers == 2

\* Largest number of package names in package.json (dependencies and
\* devDependencies together).
MaxDeps == 2

\* Largest number of check scripts installed under .agent/skills.
MaxScripts == 2

\* Largest number of runs of equal findings in the findings of one scanner.
MaxRuns == 2

\* Largest number of places where a kit differs from a complete kit.
MaxDefects == 2

\* Largest number of tokens in a rule file.
MaxTokens == 3

\* Largest number of agent files, of skill directories and of workflow files.
MaxFiles == 1

\* Largest number of files that a linter finds in a project.
MaxLinterFiles == 2

\* ------------------------------------------------------------------------
\* State
\* ------------------------------------------------------------------------

\* workspace_analyzer.py
VARIABLES
  workspace,            \* the workspace on disk (input)
  wa_pc,                \* position of workspace_analyzer.py
  detected_techs,       \* WorkspaceAnalyzer.detected_techs
  detected_frameworks,  \* WorkspaceAnalyzer.detected_frameworks
  recommended_skills,   \* WorkspaceAnalyzer.recommended_skills
  config_files_found,   \* WorkspaceAnalyzer.config_files_found
  dependencies,         \* WorkspaceAnalyzer.dependencies
  wa_result,            \* value returned by analyze()
  wa_exit               \* exit status of workspace_analyzer.py, -1 while running

waVars ==
  <<workspace, wa_pc, detected_techs, detected_frameworks, recommended_skills,
    config_files_found, dependencies, wa_result, wa_exit>>

\* skills_manager.py
VARIABLES
  active,          \* directories of SKILLS_DIR other than .disabled
  disabled,        \* directories of DISABLED_DIR
  disabled_dir,    \* TRUE when DISABLED_DIR exists
  sm_initial,      \* the placement at the start
  sm_last          \* the last command and what it returned

smVars == <<active, disabled, disabled_dir, sm_initial, sm_last>>

\* checklist.py
VARIABLES
  cl_args,          \* parsed command line: project_exists, url, quick, stop_on_fail
  cl_project,       \* the project on disk: package.json, marker files, scripts
  cl_pc,            \* position of checklist.py
  cl_project_type,  \* project_type
  cl_todo,          \* checks the current for loop has still to visit
  cl_running,       \* the check whose subprocess is running, or NoCheck
  cl_results,       \* results
  cl_launched,      \* the commands given to subprocess.run, in order
  cl_log,           \* start, finish and skip of every check, in order
  cl_summary,       \* TRUE once print_summary has run
  cl_exit           \* exit status of checklist.py, -1 while running

clVars ==
  <<cl_args, cl_project, cl_pc, cl_project_type, cl_todo, cl_running,
    cl_results, cl_launched, cl_log, cl_summary, cl_exit>>

\* verify_all.py
VARIABLES
  va_args,          \* parsed command line: project_exists, url, no_e2e, stop_on_fail
  va_project,       \* the project on disk: package.json, marker files, scripts
  va_pc,            \* position of verify_all.py
  va_project_info,  \* project_info: type and categories
  va_suites,        \* suites the outer for loop has still to visit
  va_category,      \* category of the suite being run
  va_todo,          \* checks the inner for loop has still to visit
  va_running,       \* the check whose subprocess is running, or NoCheck
  va_results,       \* results
  va_report,        \* TRUE once print_final_report has run
  va_exit           \* exit status of verify_all.py, -1 while running

vaVars ==
  <<va_args, va_project, va_pc, va_project_info, va_suites, va_category,
    va_todo, va_running, va_results, va_report, va_exit>>

\* security_scan.py
VARIABLES
  ss_args,     \* parsed command line: is_dir, scan_type, output
  ss_pc,       \* position of security_scan.py
  ss_report,   \* report of run_full_scan: scans and summary
  ss_exit      \* exit status of security_scan.py, -1 while running

ssVars == <<ss_args, ss_pc, ss_report, ss_exit>>

\* validate_kit.py
VARIABLES
  vk_kit,        \* the kit on disk as far as it has been read
  vk_verbose,    \* KitValidator.verbose
  vk_pc,         \* position of validate_kit.py
  vk_results,    \* KitValidator.results
  vk_stats,      \* KitValidator.stats
  vk_todo,       \* rule files the loop of _validate_rules_folder has to visit
  vk_rule_file,  \* rule_file of the last turn of that loop
  vk_content,    \* content read in that turn
  vk_success,    \* value returned by validate_all
  vk_exit,       \* exit status of validate_kit.py, -1 while running
  vk_budget      \* deviations from a complete kit still to be chosen

vkVars ==
  <<vk_kit, vk_verbose, vk_pc, vk_results, vk_stats, vk_todo, vk_rule_file,
    vk_content, vk_success, vk_exit, vk_budget>>

\* The linters
VARIABLES
  lt_script,         \* which linter runs
  lt_project,        \* what the linter finds in the project (input)
  lt_pc,             \* position of the linter
  lt_locale_result,  \* locale_result of i18n_checker.py
  lt_output,         \* the JSON report printed
  lt_exit            \* exit status of the linter, -1 while running

ltVars == <<lt_script, lt_project, lt_pc, lt_locale_result, lt_output, lt_exit>>

\* techstack_scanner.py
VARIABLES
  ts_pc,            \* position of techstack_scanner.py
  ts_config_files,  \* TechstackScanner.config_files
  ts_languages,     \* TechstackScanner.languages
  ts_frameworks,    \* TechstackScanner.frameworks
  ts_databases,     \* TechstackScanner.databases
  ts_tools,         \* TechstackScanner.tools
  ts_dependencies,  \* TechstackScanner.dependencies
  ts_categories,    \* TechstackScanner.categories
  ts_result,        \* value returned by scan()
  ts_exit           \* exit status of techstack_scanner.py, -1 while running

tsVars ==
  <<ts_pc, ts_config_files, ts_languages, ts_frameworks, ts_databases, ts_tools,
    ts_dependencies, ts_categories, ts_result, ts_exit>>

vars ==
  <<waVars, smVars, clVars, vaVars, ssVars, vkVars, ltVars, tsVars>>

\* What each script leaves alone: the state of the others.
waOthers ==
  <<smVars, clVars, vaVars, ssVars, vkVars, ltVars, tsVars>>
smOthers ==
  <<waVars, clVars, vaVars, ssVars, vkVars, ltVars, tsVars>>
clOthers ==
  <<waVars, smVars, vaVars, ssVars, vkVars, ltVars, tsVars>>
vaOthers ==
  <<waVars, smVars, clVars, ssVars, vkVars, ltVars, tsVars>>
ssOthers ==
  <<waVars, smVars, clVars, vaVars, vkVars, ltVars, tsVars>>
vkOthers ==
  <<waVars, smVars, clVars, vaVars, ssVars, ltVars, tsVars>>
ltOthers ==
  <<waVars, smVars, clVars, vaVars, ssVars, vkVars, tsVars>>
tsOthers ==
  <<waVars, smVars, clVars, vaVars, ssVars, vkVars, ltVars>>

\* ------------------------------------------------------------------------
\* Strings as character tuples
\* ------------------------------------------------------------------------

Range(s) == {s[i] : i \in 1..Len(s)}

\* Python `p in s` for strings.
IsSubstr(p, s) ==
  \E i \in 0..(Len(s) - Len(p)) : SubSeq(s, i + 1, i + Len(p)) = p

\* Python s.split(sep)[0]: the text before the first sep (all of s if none).
SplitFirst(s, sep) ==
  IF \E i \in 1..Len(s) : s[i] = sep
  THEN LET i == CHOOSE k \in 1..Len(s) :
                  s[k] = sep /\ \A j \in 1..(k - 1) : s[j] # sep
       IN SubSeq(s, 1, i - 1)
  ELSE s

\* Python s.replace(a, b) for single characters.
ReplaceChar(s, a, b) == [i \in 1..Len(s) |-> IF s[i] = a THEN b ELSE s[i]]

\* All subsets of S with at most n elements.
RECURSIVE SubsetsUpTo(_, _)
SubsetsUpTo(S, n) ==
  IF n = 0 THEN {{}}
  ELSE LET P == SubsetsUpTo(S, n - 1)
       IN P \cup {s \cup {x} : s \in P, x \in S}

\* ------------------------------------------------------------------------
\* workspace_analyzer.py: detection tables
\* ------------------------------------------------------------------------

CONFIG_MAPPINGS ==
  <<<<<<"p","a","c","k","a","g","e",".","j","s","o","n">>, <<"n","o","d","e","j","s">>>>,
    <<<<"p","u","b","s","p","e","c",".","y","a","m","l">>, <<"f","l","u","t","t","e","r">>>>,
    <<<<"p","y","p","r","o","j","e","c","t",".","t","o","m","l">>, <<"p","y","t","h","o","n">>>>,
    <<<<"r","e","q","u","i","r","e","m","e","n","t","s",".","t","x","t">>, <<"p","y","t","h","o","n">>>>,
    <<<<"C","a","r","g","o",".","t","o","m","l">>, <<"r","u","s","t">>>>,
    <<<<"g","o",".","m","o","d">>, <<"g","o">>>>,
    <<<<"b","u","i","l","d",".","g","r","a","d","l","e">>, <<"a","n","d","r","o","i","d">>>>,
    <<<<"b","u","i","l","d",".","g","r","a","d","l","e",".","k","t","s">>, <<"a","n","d","r","o","i","d">>>>,
    <<<<"P","o","d","f","i","l","e">>, <<"i","o","s">>>>,
    <<<<"c","o","m","p","o","s","e","r",".","j","s","o","n">>, <<"p","h","p">>>>,
    <<<<"G","e","m","f","i","l","e">>, <<"r","u","b","y">>>>>>

FRAMEWORK_MAPPINGS ==
  <<<<<<"n","e","x","t",".","c","o","n","f","i","g",".","j","s">>, <<<<"r","e","a","c","t","-","p","a","t","t","e","r","n","s">>, <<"s","e","o","-","p","a","t","t","e","r","n","s">>, <<"f","r","o","n","t","e","n","d","-","d","e","s","i","g","n">>>>>>,
    <<<<"n","e","x","t",".","c","o","n","f","i","g",".","m","j","s">>, <<<<"r","e","a","c","t","-","p","a","t","t","e","r","n","s">>, <<"s","e","o","-","p","a","t","t","e","r","n","s">>, <<"f","r","o","n","t","e","n","d","-","d","e","s","i","g","n">>>>>>,
    <<<<"n","e","x","t",".","c","o","n","f","i","g",".","t","s">>, <<<<"r","e","a","c","t","-","p","a","t","t","e","r","n","s">>, <<"s","e","o","-","p","a","t","t","e","r","n","s">>, <<"f","r","o","n","t","e","n","d","-","d","e","s","i","g","n">>>>>>,
    <<<<"v","i","t","e",".","c","o","n","f","i","g",".","j","s">>, <<<<"r","e","a","c","t","-","p","a","t","t","e","r","n","s">>, <<"f","r","o","n","t","e","n","d","-","d","e","s","i","g","n">>>>>>,
    <<<<"v","i","t","e",".","c","o","n","f","i","g",".","t","s">>, <<<<"r","e","a","c","t","-","p","a","t","t","e","r","n","s">>, <<"f","r","o","n","t","e","n","d","-","d","e","s","i","g","n">>>>>>,
    <<<<"a","n","g","u","l","a","r",".","j","s","o","n">>, <<<<"t","y","p","e","s","c","r","i","p","t","-","p","a","t","t","e","r","n","s">>, <<"f","r","o","n","t","e","n","d","-","d","e","s","i","g","n">>>>>>,
    <<<<"n","u","x","t",".","c","o","n","f","i","g",".","j","s">>, <<<<"f","r","o","n","t","e","n","d","-","d","e","s","i","g","n">>, <<"s","e","o","-","p","a","t","t","e","r","n","s">>>>>>,
    <<<<"n","u","x","t",".","c","o","n","f","i","g",".","t","s">>, <<<<"f","r","o","n","t","e","n","d","-","d","e","s","i","g","n">>, <<"s","e","o","-","p","a","t","t","e","r","n","s">>>>>>,
    <<<<"t","a","i","l","w","i","n","d",".","c","o","n","f","i","g",".","j","s">>, <<<<"t","a","i","l","w","i","n","d","-","p","a","t","t","e","r","n","s">>>>>>,
    <<<<"t","a","i","l","w","i","n","d",".","c","o","n","f","i","g",".","t","s">>, <<<<"t","a","i","l","w","i","n","d","-","p","a","t","t","e","r","n","s">>>>>>,
    <<<<"t","a","i","l","w","i","n","d",".","c","o","n","f","i","g",".","m","j","s">>, <<<<"t","a","i","l","w","i","n","d","-","p","a","t","t","e","r","n","s">>>>>>,
    <<<<"D","o","c","k","e","r","f","i","l","e">>, <<<<"d","o","c","k","e","r","-","p","a","t","t","e","r","n","s">>>>>>,
    <<<<"d","o","c","k","e","r","-","c","o","m","p","o","s","e",".","y","m","l">>, <<<<"d","o","c","k","e","r","-","p","a","t","t","e","r","n","s">>>>>>,
    <<<<"d","o","c","k","e","r","-","c","o","m","p","o","s","e",".","y","a","m","l">>, <<<<"d","o","c","k","e","r","-","p","a","t","t","e","r","n","s">>>>>>,
    <<<<".","g","i","t","l","a","b","-","c","i",".","y","m","l">>, <<<<"g","i","t","l","a","b","-","c","i","-","p","a","t","t","e","r","n","s">>>>>>>>

DIRECTORY_MAPPINGS ==
  <<<<<<".","g","i","t","h","u","b","/","w","o","r","k","f","l","o","w","s">>, <<<<"g","i","t","h","u","b","-","a","c","t","i","o","n","s">>>>>>,
    <<<<"k","8","s">>, <<<<"k","u","b","e","r","n","e","t","e","s","-","p","a","t","t","e","r","n","s">>>>>>,
    <<<<"k","u","b","e","r","n","e","t","e","s">>, <<<<"k","u","b","e","r","n","e","t","e","s","-","p","a","t","t","e","r","n","s">>>>>>,
    <<<<"t","e","r","r","a","f","o","r","m">>, <<<<"t","e","r","r","a","f","o","r","m","-","p","a","t","t","e","r","n","s">>>>>>,
    <<<<"p","r","i","s","m","a">>, <<<<"d","a","t","a","b","a","s","e","-","d","e","s","i","g","n">>, <<"p","o","s","t","g","r","e","s","-","p","a","t","t","e","r","n","s">>>>>>>>

NPM_DEPENDENCY_MAPPINGS ==
  <<<<<<"r","e","a","c","t">>, <<<<"r","e","a","c","t","-","p","a","t","t","e","r","n","s">>>>>>,
    <<<<"n","e","x","t">>, <<<<"r","e","a","c","t","-","p","a","t","t","e","r","n","s">>, <<"s","e","o","-","p","a","t","t","e","r","n","s">>>>>>,
    <<<<"@","t","a","n","s","t","a","c","k","/","r","e","a","c","t","-","q","u","e","r","y">>, <<<<"r","e","a","c","t","-","p","a","t","t","e","r","n","s">>>>>>,
    <<<<"v","u","e">>, <<<<"f","r","o","n","t","e","n","d","-","d","e","s","i","g","n">>>>>>,
    <<<<"g","r","a","p","h","q","l">>, <<<<"g","r","a","p","h","q","l","-","p","a","t","t","e","r","n","s">>>>>>,
    <<<<"@","a","p","o","l","l","o">>, <<<<"g","r","a","p","h","q","l","-","p","a","t","t","e","r","n","s">>>>>>,
    <<<<"r","e","d","i","s">>, <<<<"r","e","d","i","s","-","p","a","t","t","e","r","n","s">>>>>>,
    <<<<"i","o","r","e","d","i","s">>, <<<<"r","e","d","i","s","-","p","a","t","t","e","r","n","s">>>>>>,
    <<<<"p","g">>, <<<<"p","o","s","t","g","r","e","s","-","p","a","t","t","e","r","n","s">>>>>>,
    <<<<"p","o","s","t","g","r","e","s">>, <<<<"p","o","s","t","g","r","e","s","-","p","a","t","t","e","r","n","s">>>>>>,
    <<<<"@","p","r","i","s","m","a","/","c","l","i","e","n","t">>, <<<<"d","a","t","a","b","a","s","e","-","d","e","s","i","g","n">>, <<"p","o","s","t","g","r","e","s","-","p","a","t","t","e","r","n","s">>>>>>,
    <<<<"d","r","i","z","z","l","e","-","o","r","m">>, <<<<"d","a","t","a","b","a","s","e","-","d","e","s","i","g","n">>>>>>,
    <<<<"s","o","c","k","e","t",".","i","o">>, <<<<"r","e","a","l","t","i","m","e","-","p","a","t","t","e","r","n","s">>>>>>,
    <<<<"w","s">>, <<<<"r","e","a","l","t","i","m","e","-","p","a","t","t","e","r","n","s">>>>>>,
    <<<<"b","u","l","l","m","q">>, <<<<"q","u","e","u","e","-","p","a","t","t","e","r","n","s">>>>>>,
    <<<<"b","e","e","-","q","u","e","u","e">>, <<<<"q","u","e","u","e","-","p","a","t","t","e","r","n","s">>>>>>,
    <<<<"p","a","s","s","p","o","r","t">>, <<<<"a","u","t","h","-","p","a","t","t","e","r","n","s">>>>>>,
    <<<<"@","a","u","t","h">>, <<<<"a","u","t","h","-","p","a","t","t","e","r","n","s">>>>>>,
    <<<<"n","e","x","t","-","a","u","t","h">>, <<<<"a","u","t","h","-","p","a","t","t","e","r","n","s">>>>>>,
    <<<<"o","p","e","n","a","i">>, <<<<"a","i","-","r","a","g","-","p","a","t","t","e","r","n","s">>, <<"p","r","o","m","p","t","-","e","n","g","i","n","e","e","r","i","n","g">>>>>>,
    <<<<"l","a","n","g","c","h","a","i","n">>, <<<<"a","i","-","r","a","g","-","p","a","t","t","e","r","n","s">>>>>>,
    <<<<"@","l","a","n","g","c","h","a","i","n">>, <<<<"a","i","-","r","a","g","-","p","a","t","t","e","r","n","s">>>>>>,
    <<<<"p","l","a","y","w","r","i","g","h","t">>, <<<<"e","2","e","-","t","e","s","t","i","n","g">>>>>>,
    <<<<"@","p","l","a","y","w","r","i","g","h","t">>, <<<<"e","2","e","-","t","e","s","t","i","n","g">>>>>>,
    <<<<"c","y","p","r","e","s","s">>, <<<<"e","2","e","-","t","e","s","t","i","n","g">>>>>>,
    <<<<"j","e","s","t">>, <<<<"t","e","s","t","i","n","g","-","p","a","t","t","e","r","n","s">>>>>>,
    <<<<"v","i","t","e","s","t">>, <<<<"t","e","s","t","i","n","g","-","p","a","t","t","e","r","n","s">>>>>>,
    <<<<"e","s","l","i","n","t">>, <<<<"c","l","e","a","n","-","c","o","d","e">>>>>>,
    <<<<"p","r","e","t","t","i","e","r">>, <<<<"c","l","e","a","n","-","c","o","d","e">>>>>>,
    <<<<"t","y","p","e","s","c","r","i","p","t">>, <<<<"t","y","p","e","s","c","r","i","p","t","-","p","a","t","t","e","r","n","s">>>>>>>>

ALL_SKILLS ==
  <<<<"c","l","e","a","n","-","c","o","d","e">>,
    <<"a","p","i","-","p","a","t","t","e","r","n","s">>,
    <<"d","a","t","a","b","a","s","e","-","d","e","s","i","g","n">>,
    <<"t","e","s","t","i","n","g","-","p","a","t","t","e","r","n","s">>,
    <<"s","e","c","u","r","i","t","y","-","f","u","n","d","a","m","e","n","t","a","l","s">>,
    <<"p","e","r","f","o","r","m","a","n","c","e","-","p","r","o","f","i","l","i","n","g">>,
    <<"b","r","a","i","n","s","t","o","r","m","i","n","g">>,
    <<"p","l","a","n","-","w","r","i","t","i","n","g">>,
    <<"s","y","s","t","e","m","a","t","i","c","-","d","e","b","u","g","g","i","n","g">>,
    <<"r","e","a","l","t","i","m","e","-","p","a","t","t","e","r","n","s">>,
    <<"m","u","l","t","i","-","t","e","n","a","n","c","y">>,
    <<"q","u","e","u","e","-","p","a","t","t","e","r","n","s">>,
    <<"d","o","c","k","e","r","-","p","a","t","t","e","r","n","s">>,
    <<"k","u","b","e","r","n","e","t","e","s","-","p","a","t","t","e","r","n","s">>,
    <<"a","u","t","h","-","p","a","t","t","e","r","n","s">>,
    <<"g","i","t","h","u","b","-","a","c","t","i","o","n","s">>,
    <<"g","i","t","l","a","b","-","c","i","-","p","a","t","t","e","r","n","s">>,
    <<"p","r","o","m","p","t","-","e","n","g","i","n","e","e","r","i","n","g">>,
    <<"r","e","a","c","t","-","p","a","t","t","e","r","n","s">>,
    <<"t","y","p","e","s","c","r","i","p","t","-","p","a","t","t","e","r","n","s">>,
    <<"e","2","e","-","t","e","s","t","i","n","g">>,
    <<"p","o","s","t","g","r","e","s","-","p","a","t","t","e","r","n","s">>,
    <<"r","e","d","i","s","-","p","a","t","t","e","r","n","s">>,
    <<"g","r","a","p","h","q","l","-","p","a","t","t","e","r","n","s">>,
    <<"a","i","-","r","a","g","-","p","a","t","t","e","r","n","s">>,
    <<"m","o","n","i","t","o","r","i","n","g","-","o","b","s","e","r","v","a","b","i","l","i","t","y">>,
    <<"t","e","r","r","a","f","o","r","m","-","p","a","t","t","e","r","n","s">>,
    <<"f","l","u","t","t","e","r","-","p","a","t","t","e","r","n","s">>,
    <<"r","e","a","c","t","-","n","a","t","i","v","e","-","p","a","t","t","e","r","n","s">>,
    <<"s","e","o","-","p","a","t","t","e","r","n","s">>,
    <<"a","c","c","e","s","s","i","b","i","l","i","t","y","-","p","a","t","t","e","r","n","s">>,
    <<"m","e","r","m","a","i","d","-","d","i","a","g","r","a","m","s">>,
    <<"i","1","8","n","-","l","o","c","a","l","i","z","a","t","i","o","n">>,
    <<"m","o","b","i","l","e","-","d","e","s","i","g","n">>,
    <<"d","o","c","u","m","e","n","t","a","t","i","o","n","-","t","e","m","p","l","a","t","e","s">>,
    <<"t","a","i","l","w","i","n","d","-","p","a","t","t","e","r","n","s">>,
    <<"f","r","o","n","t","e","n","d","-","d","e","s","i","g","n">>,
    <<"u","i","-","u","x","-","p","r","o","-","m","a","x">>,
    <<"n","o","d","e","j","s","-","b","e","s","t","-","p","r","a","c","t","i","c","e","s">>>>

CORE_SKILLS ==
  <<<<"c","l","e","a","n","-","c","o","d","e">>,
    <<"b","r","a","i","n","s","t","o","r","m","i","n","g">>,
    <<"p","l","a","n","-","w","r","i","t","i","n","g">>,
    <<"s","y","s","t","e","m","a","t","i","c","-","d","e","b","u","g","g","i","n","g">>,
    <<"t","e","s","t","i","n","g","-","p","a","t","t","e","r","n","s">>,
    <<"s","e","c","u","r","i","t","y","-","f","u","n","d","a","m","e","n","t","a","l","s">>>>

\* Package names that package.json may list.
DepNames ==
  {<<"r","e","a","c","t">>,
   <<"p","r","e","a","c","t">>,
   <<"n","e","x","t","-","a","u","t","h">>,
   <<"e","x","p","r","e","s","s">>,
   <<"p","g">>,
   <<"a","w","s","-","s","d","k">>,
   <<"@","p","r","i","s","m","a","/","c","l","i","e","n","t">>}

\* Names that the workspace root may hold.
RootNames ==
  {<<"p","a","c","k","a","g","e",".","j","s","o","n">>,
   <<"p","u","b","s","p","e","c",".","y","a","m","l">>,
   <<"p","y","p","r","o","j","e","c","t",".","t","o","m","l">>,
   <<"r","e","q","u","i","r","e","m","e","n","t","s",".","t","x","t">>,
   <<"C","a","r","g","o",".","t","o","m","l">>,
   <<"n","e","x","t",".","c","o","n","f","i","g",".","j","s">>,
   <<"v","i","t","e",".","c","o","n","f","i","g",".","t","s">>,
   <<"t","a","i","l","w","i","n","d",".","c","o","n","f","i","g",".","j","s">>,
   <<"D","o","c","k","e","r","f","i","l","e">>,
   <<".","g","i","t","l","a","b","-","c","i",".","y","m","l">>,
   <<".","g","i","t","h","u","b","/","w","o","r","k","f","l","o","w","s">>,
   <<"p","r","i","s","m","a">>,
   <<"k","8","s">>,
   <<"R","E","A","D","M","E",".","m","d">>}

\* Code points of the characters used, for Python's string ordering.
Ord(c) ==
  CASE c = "-" -> 45
    [] c = "." -> 46
    [] c = "/" -> 47
    [] c = "1" -> 49
    [] c = "2" -> 50
    [] c = "8" -> 56
    [] c = "@" -> 64
    [] c = "A" -> 65
    [] c = "C" -> 67
    [] c = "D" -> 68
    [] c = "E" -> 69
    [] c = "G" -> 71
    [] c = "M" -> 77
    [] c = "P" -> 80
    [] c = "R" -> 82
    [] c = "a" -> 97
    [] c = "b" -> 98
    [] c = "c" -> 99
    [] c = "d" -> 100
    [] c = "e" -> 101
    [] c = "f" -> 102
    [] c = "g" -> 103
    [] c = "h" -> 104
    [] c = "i" -> 105
    [] c = "j" -> 106
    [] c = "k" -> 107
    [] c = "l" -> 108
    [] c = "m" -> 109
    [] c = "n" -> 110
    [] c = "o" -> 111
    [] c = "p" -> 112
    [] c = "q" -> 113
    [] c = "r" -> 114
    [] c = "s" -> 115
    [] c = "t" -> 116
    [] c = "u" -> 117
    [] c = "v" -> 118
    [] c = "w" -> 119
    [] c = "x" -> 120
    [] c = "y" -> 121
    [] c = "z" -> 122

\* Python a < b for strings (lexicographic by code point), from position i.
RECURSIVE LexLessFrom(_, _, _)
LexLessFrom(a, b, i) ==
  IF i > Len(b) THEN FALSE
  ELSE IF i > Len(a) THEN TRUE
  ELSE IF a[i] = b[i] THEN LexLessFrom(a, b, i + 1)
  ELSE Ord(a[i]) < Ord(b[i])

LexLess(a, b) == LexLessFrom(a, b, 1)

\* x put at its place in the sorted sequence s.
InsertSorted(x, s) ==
  LET k == Cardinality({i \in 1..Len(s) : LexLess(s[i], x)})
  IN SubSeq(s, 1, k) \o <<x>> \o SubSeq(s, k + 1, Len(s))

\* Python sorted(...) of a collection of distinct strings.
RECURSIVE SortSet(_)
SortSet(S) ==
  IF S = {} THEN <<>>
  ELSE LET x == CHOOSE y \in S : TRUE
       IN InsertSorted(x, SortSet(S \ {x}))

\* Union of the skill lists of the table rows whose key is in kept.
SkillsOf(table, kept) ==
  UNION {Range(table[i][2]) : i \in {j \in 1..Len(table) : table[j][1] \in kept}}

\* Keys of a mapping table, in iteration order.
Keys(table) == [i \in 1..Len(table) |-> table[i][1]]

PackageJson == <<"p","a","c","k","a","g","e",".","j","s","o","n">>
PubspecYaml == <<"p","u","b","s","p","e","c",".","y","a","m","l">>

\* ------------------------------------------------------------------------
\* workspace_analyzer.py: inputs
\* ------------------------------------------------------------------------

\* A root entry is a name with its kind. Every name may be a regular file;
\* the DIRECTORY_MAPPINGS names and package.json may also be directories.
MarkerEntries ==
  {<<n, "file">> : n \in RootNames}
    \cup {<<n, "dir">> :
            n \in RootNames \cap (Range(Keys(DIRECTORY_MAPPINGS)) \cup {PackageJson})}

\* Root listings: at most MaxMarkers entries, no name twice.
MarkerSets ==
  {P \in SubsetsUpTo(MarkerEntries, MaxMarkers) :
     \A e, f \in P : e[1] = f[1] => e = f}

\* What json.load gives for package.json: a JSON object ("valid"), a parse
\* error ("invalid"), JSON that is not an object ("nonobject"), or the file
\* cannot be opened as a file ("none").
PkgKinds(P) ==
  IF <<PackageJson, "file">> \in P THEN {"valid", "invalid", "nonobject"}
  ELSE {"none"}

Workspaces ==
  {[exists |-> FALSE, present |-> {}, pkg |-> "none", deps |-> {}]}
    \cup UNION { UNION { {[exists |-> TRUE, present |-> P, pkg |-> k, deps |-> d] :
                            d \in IF k = "valid" THEN SubsetsUpTo(DepNames, MaxDeps)
                                  ELSE {{}}} :
                         k \in PkgKinds(P)} :
                 P \in MarkerSets}

NoResult == [none |-> TRUE]
NoDependencies == [m \in {} |-> {}]

\* Path.exists() and Path.is_dir() of workspace / name.
PathExists(name) == \E e \in workspace.present : e[1] = name
PathIsDir(name) == <<name, "dir">> \in workspace.present

\* WorkspaceAnalyzer.__init__
WaInit ==
  /\ workspace \in Workspaces
  /\ wa_pc = "analyze"
  /\ detected_techs = <<>>
  /\ detected_frameworks = <<>>
  /\ recommended_skills = {}
  /\ config_files_found = <<>>
  /\ dependencies = NoDependencies
  /\ wa_result = NoResult
  /\ wa_exit = -1

\* The analyzer is not running.
WaIdle ==
  /\ workspace = [exists |-> FALSE, present |-> {}, pkg |-> "none", deps |-> {}]
  /\ wa_pc = "off"
  /\ detected_techs = <<>>
  /\ detected_frameworks = <<>>
  /\ recommended_skills = {}
  /\ config_files_found = <<>>
  /\ dependencies = NoDependencies
  /\ wa_result = NoResult
  /\ wa_exit = -1

\* WorkspaceAnalyzer._error
WaError == [success |-> FALSE, error |-> "Workspace not found"]

\* analyze(): the existence test.
WaAnalyze ==
  /\ wa_pc = "analyze"
  /\ IF ~workspace.exists
     THEN /\ wa_result' = WaError
          /\ wa_pc' = "returned"
     ELSE /\ wa_pc' = "scan_config_files"
          /\ UNCHANGED wa_result
  /\ UNCHANGED <<workspace, detected_techs, detected_frameworks,
                 recommended_skills, config_files_found, dependencies, wa_exit>>
  /\ UNCHANGED waOthers

\* The rows of a table whose key exists in the workspace, in table order.
PresentRows(table) == SelectSeq(table, LAMBDA row : PathExists(row[1]))

WaScanConfigFiles ==
  /\ wa_pc = "scan_config_files"
  /\ LET rows == PresentRows(CONFIG_MAPPINGS)
     IN /\ config_files_found' = config_files_found \o Keys(rows)
        /\ detected_techs' =
             detected_techs \o [i \in 1..Len(rows) |-> rows[i][2]]
  /\ wa_pc' = "scan_framework_markers"
  /\ UNCHANGED <<workspace, detected_frameworks, recommended_skills,
                 dependencies, wa_result, wa_exit>>
  /\ UNCHANGED waOthers

\* filename.split(".")[0].replace("_", "-")
FrameworkName(filename) == ReplaceChar(SplitFirst(filename, "."), "_", "-")

NotFrameworks ==
  {<<"D","o","c","k","e","r","f","i","l","e">>,
   <<"d","o","c","k","e","r","-","c","o","m","p","o","s","e">>}

WaScanFrameworkMarkers ==
  /\ wa_pc = "scan_framework_markers"
  /\ LET rows == PresentRows(FRAMEWORK_MAPPINGS)
         names == [i \in 1..Len(rows) |-> FrameworkName(rows[i][1])]
     IN /\ config_files_found' = config_files_found \o Keys(rows)
        /\ recommended_skills' =
             recommended_skills
               \cup SkillsOf(FRAMEWORK_MAPPINGS, Range(Keys(rows)))
        /\ detected_frameworks' =
             detected_frameworks
               \o SelectSeq(names, LAMBDA f : f \notin NotFrameworks)
  /\ wa_pc' = "scan_directories"
  /\ UNCHANGED <<workspace, detected_techs, dependencies, wa_result, wa_exit>>
  /\ UNCHANGED waOthers

WaScanDirectories ==
  /\ wa_pc = "scan_directories"
  /\ LET rows == SelectSeq(DIRECTORY_MAPPINGS, LAMBDA row : PathIsDir(row[1]))
     IN /\ config_files_found' =
             config_files_found
               \o [i \in 1..Len(rows) |-> Append(rows[i][1], "/")]
        /\ recommended_skills' =
             recommended_skills
               \cup SkillsOf(DIRECTORY_MAPPINGS, Range(Keys(rows)))
  /\ wa_pc' = "parse_dependencies"
  /\ UNCHANGED <<workspace, detected_techs, detected_frameworks, dependencies,
                 wa_result, wa_exit>>
  /\ UNCHANGED waOthers

\* Skills of the NPM_DEPENDENCY_MAPPINGS patterns that occur in some name.
WaDependencySkills(names) ==
  SkillsOf(NPM_DEPENDENCY_MAPPINGS,
           {pattern \in Range(Keys(NPM_DEPENDENCY_MAPPINGS)) :
              \E dep_name \in names : IsSubstr(pattern, dep_name)})

FlutterSkills ==
  {<<"f","l","u","t","t","e","r","-","p","a","t","t","e","r","n","s">>,
   <<"m","o","b","i","l","e","-","d","e","s","i","g","n">>}

\* _parse_dependencies. json.load of something that is not an object makes
\* data.get raise AttributeError, which the except clause does not catch.
WaParseDependencies ==
  /\ wa_pc = "parse_dependencies"
  /\ IF PathExists(PackageJson) /\ workspace.pkg = "nonobject"
     THEN /\ wa_pc' = "crashed"
          /\ wa_exit' = 1
          /\ UNCHANGED <<dependencies, recommended_skills>>
     ELSE /\ wa_pc' = "build_result"
          /\ wa_exit' = wa_exit
          /\ dependencies' =
               IF PathExists(PackageJson) /\ workspace.pkg = "valid"
               THEN [m \in {"npm"} |-> workspace.deps]
               ELSE dependencies
          /\ recommended_skills' =
               recommended_skills
                 \cup (IF PathExists(PackageJson) /\ workspace.pkg = "valid"
                       THEN WaDependencySkills(workspace.deps) ELSE {})
                 \cup (IF PathExists(PubspecYaml) THEN FlutterSkills ELSE {})
  /\ UNCHANGED <<workspace, detected_techs, detected_frameworks,
                 config_files_found, wa_result>>
  /\ UNCHANGED waOthers

\* _build_result without the update by CORE_SKILLS.
WaEnabledWithoutCore(recommended) == recommended

\* The enable and disable lists of _build_result, before sorting.
WaEnabled(recommended) == recommended \cup Range(CORE_SKILLS)

WaDisabled(recommended) ==
  {s \in Range(ALL_SKILLS) :
     s \notin WaEnabled(recommended) /\ s \notin Range(CORE_SKILLS)}

WaBuildResult ==
  /\ wa_pc = "build_result"
  /\ recommended_skills' = WaEnabled(recommended_skills)
  /\ wa_result' =
       [success |-> TRUE,
        detection |->
          [configFiles |-> config_files_found,
           technologies |-> Range(detected_techs),
           frameworks |-> Range(detected_frameworks),
           dependencies |-> dependencies],
        recommendations |->
          [enable |-> SortSet(WaEnabled(recommended_skills)),
           disable |-> SortSet(WaDisabled(recommended_skills)),
           coreSkills |-> CORE_SKILLS],
        summary |->
          [totalSkillsAvailable |-> Len(ALL_SKILLS),
           recommendedEnabled |-> Cardinality(WaEnabled(recommended_skills)),
           recommendedDisabled |-> Cardinality(WaDisabled(recommended_skills)),
           coreSkillsCount |-> Len(CORE_SKILLS)]]
  /\ wa_pc' = "returned"
  /\ UNCHANGED <<workspace, detected_techs, detected_frameworks,
                 config_files_found, dependencies, wa_exit>>
  /\ UNCHANGED waOthers

\* main(): print the result and exit by its success field.
WaMain ==
  /\ wa_pc = "returned"
  /\ wa_exit' = IF wa_result.success THEN 0 ELSE 1
  /\ wa_pc' = "exited"
  /\ UNCHANGED <<workspace, detected_techs, detected_frameworks,
                 recommended_skills, config_files_found, dependencies, wa_result>>
  /\ UNCHANGED waOthers

\* ------------------------------------------------------------------------
\* skills_manager.py
\* ------------------------------------------------------------------------

DotDisabled == <<".","d","i","s","a","b","l","e","d">>

\* Directory names that may sit under skills/ at the start. The last one is
\* a hidden directory.
SkillNames ==
  {<<"a","p","i">>, <<"s","e","o">>, <<"i","1","8","n">>, <<"e","2","e">>,
   <<".","t","m","p">>}

\* Names given on the command line: the above, a name that is no skill,
\* and the .disabled directory itself.
SkillArgs == SkillNames \cup {<<"g","h","o","s","t">>, DotDisabled}

SmNoCommand == [cmd |-> "none", skill_name |-> <<>>, ok |-> FALSE]

\* Every skill is in exactly one of skills/ and skills/.disabled/.
SmInit ==
  /\ active \in SUBSET SkillNames
  /\ disabled \in SUBSET (SkillNames \ active)
  /\ disabled_dir \in IF disabled = {} THEN BOOLEAN ELSE {TRUE}
  /\ sm_initial = [active |-> active, disabled |-> disabled]
  /\ sm_last = SmNoCommand

SmIdle ==
  /\ active = {}
  /\ disabled = {}
  /\ disabled_dir = FALSE
  /\ sm_initial = [active |-> {}, disabled |-> {}]
  /\ sm_last = SmNoCommand

\* (SKILLS_DIR / skill_name).exists()
SmInSkillsDir(skill_name) ==
  skill_name \in active \/ (skill_name = DotDisabled /\ disabled_dir)

\* (DISABLED_DIR / skill_name).exists()
SmInDisabledDir(skill_name) == disabled_dir /\ skill_name \in disabled

\* skill_name.startswith('.')
StartsWithDot(skill_name) == Len(skill_name) > 0 /\ skill_name[1] = "."

\* A copy instead of a move: the entry stays in `from`.
SmRenameKeepsSource(from, to, name) == [from |-> from, to |-> to \cup {name}]

\* source.rename(target) between two directories holding `name`: the entry
\* leaves `from` and is in `to`.
SmRename(from, to, name) == [from |-> from \ {name}, to |-> to \cup {name}]

\* enable_skill(skill_name)
SmEnable(skill_name) ==
  /\ IF ~SmInDisabledDir(skill_name)
     THEN /\ sm_last' = [cmd |-> "enable", skill_name |-> skill_name, ok |-> FALSE]
          /\ UNCHANGED <<active, disabled>>
     ELSE IF SmInSkillsDir(skill_name)
     THEN /\ sm_last' = [cmd |-> "enable", skill_name |-> skill_name, ok |-> FALSE]
          /\ UNCHANGED <<active, disabled>>
     ELSE LET r == SmRename(disabled, active, skill_name)
          IN /\ disabled' = r.from
             /\ active' = r.to
             /\ sm_last' = [cmd |-> "enable", skill_name |-> skill_name, ok |-> TRUE]
  /\ UNCHANGED <<disabled_dir, sm_initial>>
  /\ UNCHANGED smOthers

\* disable_skill(skill_name). The target is not tested: renaming onto an
\* existing directory replaces it when it is empty and raises OSError
\* otherwise (target_empty).
SmDisable(skill_name, target_empty) ==
  /\ IF ~SmInSkillsDir(skill_name)
     THEN /\ sm_last' = [cmd |-> "disable", skill_name |-> skill_name, ok |-> FALSE]
          /\ UNCHANGED <<active, disabled, disabled_dir>>
     ELSE IF StartsWithDot(skill_name)
     THEN /\ sm_last' = [cmd |-> "disable", skill_name |-> skill_name, ok |-> FALSE]
          /\ UNCHANGED <<active, disabled, disabled_dir>>
     ELSE /\ disabled_dir' = TRUE
          /\ IF skill_name \in disabled /\ ~target_empty
             THEN /\ sm_last' = [cmd |-> "disable", skill_name |-> skill_name,
                                 ok |-> FALSE]
                  /\ UNCHANGED <<active, disabled>>
             ELSE LET r == SmRename(active, disabled, skill_name)
                  IN /\ active' = r.from
                     /\ disabled' = r.to
                     /\ sm_last' = [cmd |-> "disable", skill_name |-> skill_name,
                                    ok |-> TRUE]
  /\ UNCHANGED sm_initial
  /\ UNCHANGED smOthers

\* main(): the enable and disable commands.
SmEnableCommand == \E skill_name \in SkillArgs : SmEnable(skill_name)

SmDisableCommand ==
  \E skill_name \in SkillArgs, target_empty \in BOOLEAN :
    SmDisable(skill_name, target_empty)

\* ------------------------------------------------------------------------
\* checklist.py
\* ------------------------------------------------------------------------

CORE_CHECKS ==
  <<[name |-> "Security Scan", skill |-> "security-fundamentals",
     priority |-> 0, required |-> TRUE, needs_url |-> FALSE],
    [name |-> "Lint Check", skill |-> "clean-code",
     priority |-> 1, required |-> TRUE, needs_url |-> FALSE],
    [name |-> "Schema Validation", skill |-> "database-design",
     priority |-> 2, required |-> FALSE, needs_url |-> FALSE],
    [name |-> "Test Runner", skill |-> "testing-patterns",
     priority |-> 3, required |-> FALSE, needs_url |-> FALSE],
    [name |-> "UX Audit", skill |-> "frontend-design",
     priority |-> 4, required |-> FALSE, needs_url |-> FALSE],
    [name |-> "SEO Check", skill |-> "seo-patterns",
     priority |-> 5, required |-> FALSE, needs_url |-> FALSE]>>

PERFORMANCE_CHECKS ==
  <<[name |-> "Lighthouse Audit", skill |-> "performance-profiling",
     priority |-> 6, required |-> FALSE, needs_url |-> TRUE],
    [name |-> "E2E Tests", skill |-> "e2e-testing",
     priority |-> 7, required |-> FALSE, needs_url |-> TRUE]>>

QUICK_CHECKS == {"Security Scan", "Lint Check", "Test Runner"}

ClCheckNames ==
  {CORE_CHECKS[i].name : i \in 1..Len(CORE_CHECKS)}
    \cup {PERFORMANCE_CHECKS[i].name : i \in 1..Len(PERFORMANCE_CHECKS)}

\* The table row of a check name.
ClCheck(name) ==
  CHOOSE c \in Range(CORE_CHECKS) \cup Range(PERFORMANCE_CHECKS) : c.name = name

NoCheck == "none"

\* How a launched subprocess ends: return code 0, another return code,
\* subprocess.TimeoutExpired, or any other exception of subprocess.run.
Outcomes == {"pass", "fail", "timeout", "error"}

\* Project roots for detect_project_type: the state of package.json with
\* the keys of its dependencies, and the marker files beside it.
ClProjectKinds ==
  {[pkg |-> "absent", deps |-> {}, files |-> {}],
   [pkg |-> "invalid", deps |-> {}, files |-> {}],
   [pkg |-> "valid", deps |-> {"next", "react"}, files |-> {}],
   [pkg |-> "valid", deps |-> {"lodash"}, files |-> {"pyproject.toml"}],
   [pkg |-> "absent", deps |-> {}, files |-> {"requirements.txt", "go.mod"}],
   [pkg |-> "absent", deps |-> {}, files |-> {"pubspec.yaml"}]}

\* detect_project_type of checklist.py; "raise" when json.loads fails.
ClDetectProjectType(project) ==
  IF project.pkg # "absent"
  THEN IF project.pkg = "invalid" THEN "raise"
       ELSE IF "next" \in project.deps THEN "nextjs"
       ELSE IF "react" \in project.deps THEN "react"
       ELSE IF "express" \in project.deps \/ "fastify" \in project.deps
            THEN "node-backend"
       ELSE "node"
  ELSE IF "pyproject.toml" \in project.files
          \/ "requirements.txt" \in project.files THEN "python"
  ELSE IF "pubspec.yaml" \in project.files THEN "flutter"
  ELSE IF "go.mod" \in project.files THEN "go"
  ELSE "unknown"

\* sorted(checks, key=priority) in descending order.
RECURSIVE SortByPriorityDescending(_)
SortByPriorityDescending(checks) ==
  IF checks = <<>> THEN <<>>
  ELSE LET rest == SortByPriorityDescending(Tail(checks))
           k == Cardinality({i \in 1..Len(rest) :
                               rest[i].priority > Head(checks).priority})
       IN SubSeq(rest, 1, k) \o <<Head(checks)>> \o SubSeq(rest, k + 1, Len(rest))

\* sorted(checks, key=lambda x: x["priority"]): stable, ascending.
RECURSIVE SortByPriority(_)
SortByPriority(checks) ==
  IF checks = <<>> THEN <<>>
  ELSE LET rest == SortByPriority(Tail(checks))
           k == Cardinality({i \in 1..Len(rest) :
                               rest[i].priority < Head(checks).priority})
       IN SubSeq(rest, 1, k) \o <<Head(checks)>> \o SubSeq(rest, k + 1, Len(rest))

\* checks_to_run without the --quick filter.
ClChecksToRunUnfiltered(quick) == CORE_CHECKS

\* checks_to_run of main.
ClChecksToRun(quick) ==
  IF quick THEN SelectSeq(CORE_CHECKS, LAMBDA c : c.name \in QUICK_CHECKS)
  ELSE CORE_CHECKS

\* Python truth of args.url: None and "" are false.
ClUrlTruthy(url) == url = "given"

\* The performance loop runs whenever a URL is given, --quick or not.
ClRunsPerformanceIgnoringQuick(args) == ClUrlTruthy(args.url)

\* main: `if args.url and not args.quick`
ClRunsPerformance(args) == ClUrlTruthy(args.url) /\ ~args.quick

\* run_script: cmd, with the URL appended when url and check.get("needs_url").
ClCommand(check, url) ==
  [script |-> check.name,
   url |-> IF ClUrlTruthy(url) /\ check.needs_url THEN url ELSE "none"]

\* run_script: the result for a missing script.
ClSkipped(check) ==
  [name |-> check.name, skill |-> check.skill, passed |-> TRUE,
   skipped |-> TRUE, error |-> ""]

\* run_script: the result of a launched script.
ClResult(check, outcome) ==
  [name |-> check.name, skill |-> check.skill,
   passed |-> (outcome = "pass"), skipped |-> FALSE,
   error |-> CASE outcome = "timeout" -> "Timeout"
               [] outcome = "error" -> "exception"
               [] outcome = "fail" -> "stderr"
               [] OTHER -> ""]

\* The stop test without `check["required"]`: any failure stops.
ClStopsAnyFailure(args, check, result) ==
  args.stop_on_fail /\ ~result.passed /\ ~result.skipped

\* main: the --stop-on-fail test after a core check.
ClStops(args, check, result) ==
  args.stop_on_fail /\ check.required /\ ~result.passed /\ ~result.skipped

\* print_summary: TRUE when no check failed.
ClAllPassed(results) ==
  Cardinality({i \in 1..Len(results) :
                 ~results[i].passed /\ ~results[i].skipped}) = 0

ClArgs ==
  [project_exists : BOOLEAN, url : {"none", "empty", "given"},
   quick : BOOLEAN, stop_on_fail : BOOLEAN]

ClInit ==
  /\ cl_args \in ClArgs
  /\ \E kind \in ClProjectKinds, scripts \in SubsetsUpTo(ClCheckNames, MaxScripts) :
       cl_project =
         IF cl_args.project_exists
         THEN [pkg |-> kind.pkg, deps |-> kind.deps, files |-> kind.files,
               scripts |-> scripts]
         ELSE [pkg |-> "absent", deps |-> {}, files |-> {}, scripts |-> {}]
  /\ cl_pc = "main"
  /\ cl_project_type = "unset"
  /\ cl_todo = <<>>
  /\ cl_running = NoCheck
  /\ cl_results = <<>>
  /\ cl_launched = <<>>
  /\ cl_log = <<>>
  /\ cl_summary = FALSE
  /\ cl_exit = -1

ClIdle ==
  /\ cl_args = [project_exists |-> FALSE, url |-> "none", quick |-> FALSE,
                stop_on_fail |-> FALSE]
  /\ cl_project = [pkg |-> "absent", deps |-> {}, files |-> {}, scripts |-> {}]
  /\ cl_pc = "off"
  /\ cl_project_type = "unset"
  /\ cl_todo = <<>>
  /\ cl_running = NoCheck
  /\ cl_results = <<>>
  /\ cl_launched = <<>>
  /\ cl_log = <<>>
  /\ cl_summary = FALSE
  /\ cl_exit = -1

\* main up to the core loop: the path test, detect_project_type and the
\* choice of checks_to_run.
ClMain ==
  /\ cl_pc = "main"
  /\ IF ~cl_args.project_exists
     THEN /\ cl_pc' = "exited"
          /\ cl_exit' = 1
          /\ UNCHANGED <<cl_project_type, cl_todo>>
     ELSE IF ClDetectProjectType(cl_project) = "raise"
     THEN /\ cl_pc' = "crashed"
          /\ cl_exit' = 1
          /\ UNCHANGED <<cl_project_type, cl_todo>>
     ELSE /\ cl_project_type' = ClDetectProjectType(cl_project)
          /\ cl_todo' = SortByPriority(ClChecksToRun(cl_args.quick))
          /\ cl_pc' = "core"
          /\ cl_exit' = cl_exit
  /\ UNCHANGED <<cl_args, cl_project, cl_running, cl_results, cl_launched,
                 cl_log, cl_summary>>
  /\ UNCHANGED clOthers

\* run_script up to subprocess.run, for the next check of the current loop.
\* A missing script gives the skipped result at once; the core loop then
\* makes its stop test, which a skipped result never passes.
ClRunScript ==
  /\ cl_pc \in {"core", "performance"}
  /\ cl_running = NoCheck
  /\ cl_todo # <<>>
  /\ LET check == Head(cl_todo)
         url == IF cl_pc = "performance" THEN cl_args.url ELSE "none"
     IN IF check.name \notin cl_project.scripts
        THEN /\ cl_results' = Append(cl_results, ClSkipped(check))
             /\ cl_log' = Append(cl_log, [event |-> "skip", name |-> check.name])
             /\ IF cl_pc = "core" /\ ClStops(cl_args, check, ClSkipped(check))
                THEN /\ cl_summary' = TRUE
                     /\ cl_exit' = 1
                     /\ cl_pc' = "exited"
                     /\ UNCHANGED cl_todo
                ELSE /\ cl_todo' = Tail(cl_todo)
                     /\ UNCHANGED <<cl_summary, cl_exit, cl_pc>>
             /\ UNCHANGED <<cl_running, cl_launched>>
        ELSE /\ cl_running' = check.name
             /\ cl_launched' = Append(cl_launched, ClCommand(check, url))
             /\ cl_log' = Append(cl_log, [event |-> "start", name |-> check.name])
             /\ UNCHANGED <<cl_results, cl_todo, cl_summary, cl_exit, cl_pc>>
  /\ UNCHANGED <<cl_args, cl_project, cl_project_type>>
  /\ UNCHANGED clOthers

\* The subprocess ends: the rest of run_script, then in the core loop the
\* --stop-on-fail test with print_summary and sys.exit(1).
ClScriptEnds ==
  /\ cl_pc \in {"core", "performance"}
  /\ cl_running # NoCheck
  /\ \E outcome \in Outcomes :
       LET check == Head(cl_todo)
           result == ClResult(check, outcome)
       IN /\ cl_results' = Append(cl_results, result)
          /\ cl_log' = Append(cl_log, [event |-> "finish", name |-> check.name])
          /\ cl_running' = NoCheck
          /\ IF cl_pc = "core" /\ ClStops(cl_args, check, result)
             THEN /\ cl_summary' = TRUE
                  /\ cl_exit' = 1
                  /\ cl_pc' = "exited"
                  /\ UNCHANGED cl_todo
             ELSE /\ cl_todo' = Tail(cl_todo)
                  /\ UNCHANGED <<cl_summary, cl_exit, cl_pc>>
  /\ UNCHANGED <<cl_args, cl_project, cl_project_type, cl_launched>>
  /\ UNCHANGED clOthers

\* The core loop is over: enter the performance loop or go to the summary.
ClCoreDone ==
  /\ cl_pc = "core"
  /\ cl_running = NoCheck
  /\ cl_todo = <<>>
  /\ IF ClRunsPerformance(cl_args)
     THEN /\ cl_todo' = PERFORMANCE_CHECKS
          /\ cl_pc' = "performance"
     ELSE /\ cl_pc' = "summary"
          /\ UNCHANGED cl_todo
  /\ UNCHANGED <<cl_args, cl_project, cl_project_type, cl_running, cl_results,
                 cl_launched, cl_log, cl_summary, cl_exit>>
  /\ UNCHANGED clOthers

\* The performance loop is over.
ClPerformanceDone ==
  /\ cl_pc = "performance"
  /\ cl_running = NoCheck
  /\ cl_todo = <<>>
  /\ cl_pc' = "summary"
  /\ UNCHANGED <<cl_args, cl_project, cl_project_type, cl_todo, cl_running,
                 cl_results, cl_launched, cl_log, cl_summary, cl_exit>>
  /\ UNCHANGED clOthers

\* print_summary and sys.exit at the end of main.
ClSummary ==
  /\ cl_pc = "summary"
  /\ cl_summary' = TRUE
  /\ cl_exit' = IF ClAllPassed(cl_results) THEN 0 ELSE 1
  /\ cl_pc' = "exited"
  /\ UNCHANGED <<cl_args, cl_project, cl_project_type, cl_todo, cl_running,
                 cl_results, cl_launched, cl_log>>
  /\ UNCHANGED clOthers

\* ------------------------------------------------------------------------
\* verify_all.py
\* ------------------------------------------------------------------------

VERIFICATION_SUITE ==
  <<[category |-> "Security", priority |-> 0, requires_url |-> FALSE,
     checks |->
       <<[name |-> "Security Scan", skill |-> "security-fundamentals",
         required |-> TRUE, needs_url |-> FALSE],
        [name |-> "Dependency Audit", skill |-> "security-fundamentals",
         required |-> FALSE, needs_url |-> FALSE],
        [name |-> "Auth Validation", skill |-> "auth-patterns",
         required |-> FALSE, needs_url |-> FALSE]>>],
    [category |-> "Code Quality", priority |-> 1, requires_url |-> FALSE,
     checks |->
       <<[name |-> "Lint Check", skill |-> "clean-code",
         required |-> TRUE, needs_url |-> FALSE],
        [name |-> "Type Coverage", skill |-> "typescript-patterns",
         required |-> FALSE, needs_url |-> FALSE]>>],
    [category |-> "Data Layer", priority |-> 2, requires_url |-> FALSE,
     checks |->
       <<[name |-> "Schema Validation", skill |-> "database-design",
         required |-> FALSE, needs_url |-> FALSE],
        [name |-> "PostgreSQL Audit", skill |-> "postgres-patterns",
         required |-> FALSE, needs_url |-> FALSE]>>],
    [category |-> "Testing", priority |-> 3, requires_url |-> FALSE,
     checks |->
       <<[name |-> "Test Suite", skill |-> "testing-patterns",
         required |-> FALSE, needs_url |-> FALSE]>>],
    [category |-> "UX & Accessibility", priority |-> 4, requires_url |-> FALSE,
     checks |->
       <<[name |-> "UX Audit", skill |-> "frontend-design",
         required |-> FALSE, needs_url |-> FALSE],
        [name |-> "Accessibility Check", skill |-> "accessibility-patterns",
         required |-> FALSE, needs_url |-> FALSE]>>],
    [category |-> "SEO", priority |-> 5, requires_url |-> FALSE,
     checks |->
       <<[name |-> "SEO Check", skill |-> "seo-patterns",
         required |-> FALSE, needs_url |-> FALSE]>>],
    [category |-> "Performance", priority |-> 6, requires_url |-> TRUE,
     checks |->
       <<[name |-> "Lighthouse Audit", skill |-> "performance-profiling",
         required |-> TRUE, needs_url |-> TRUE]>>],
    [category |-> "E2E Testing", priority |-> 7, requires_url |-> TRUE,
     checks |->
       <<[name |-> "Playwright E2E", skill |-> "e2e-testing",
         required |-> FALSE, needs_url |-> TRUE]>>],
    [category |-> "Mobile", priority |-> 8, requires_url |-> FALSE,
     checks |->
       <<[name |-> "Mobile Audit", skill |-> "mobile-design",
         required |-> FALSE, needs_url |-> FALSE]>>],
    [category |-> "API", priority |-> 9, requires_url |-> FALSE,
     checks |->
       <<[name |-> "API Validator", skill |-> "api-patterns",
         required |-> FALSE, needs_url |-> FALSE]>>]>>

\* Every check of the suite, with its category.
VaAllChecks ==
  UNION {{[category |-> VERIFICATION_SUITE[i].category,
           name |-> VERIFICATION_SUITE[i].checks[j].name] :
            j \in 1..Len(VERIFICATION_SUITE[i].checks)} :
         i \in 1..Len(VERIFICATION_SUITE)}

\* Checks whose script may be installed in the model.
VaScriptNames ==
  {"Security Scan", "Lighthouse Audit", "Playwright E2E", "API Validator"}

\* Project roots for detect_project_type.
VaProjectKinds ==
  {[pkg |-> "absent", deps |-> {}, files |-> {}],
   [pkg |-> "invalid", deps |-> {}, files |-> {}],
   [pkg |-> "valid", deps |-> {"next", "react"}, files |-> {}],
   [pkg |-> "valid", deps |-> {"express"}, files |-> {}],
   [pkg |-> "valid", deps |-> {"lodash"}, files |-> {"pyproject.toml"}],
   [pkg |-> "absent", deps |-> {}, files |-> {"pubspec.yaml"}],
   [pkg |-> "absent", deps |-> {}, files |-> {"pyproject.toml"}],
   [pkg |-> "valid", deps |-> {"react"},
    files |-> {"pubspec.yaml", "pyproject.toml"}]}

\* detect_project_type of verify_all.py: the type and the categories list.
VaDetectProjectType(project) ==
  LET base == <<"Security", "Code Quality", "Testing">>
      frontend == "next" \in project.deps \/ "react" \in project.deps
      backend == "express" \in project.deps \/ "fastify" \in project.deps
      t1 == IF project.pkg = "absent" THEN "unknown"
            ELSE IF project.pkg = "invalid" THEN "node"
            ELSE IF frontend THEN "web-frontend"
            ELSE IF backend THEN "node-backend"
            ELSE "node"
      c1 == IF project.pkg = "valid" /\ frontend
            THEN base \o <<"UX & Accessibility", "SEO", "Performance",
                           "E2E Testing">>
            ELSE IF project.pkg = "valid" /\ backend
            THEN base \o <<"Data Layer", "API">>
            ELSE base
      t2 == IF "pubspec.yaml" \in project.files THEN "flutter" ELSE t1
      c2 == IF "pubspec.yaml" \in project.files THEN Append(c1, "Mobile") ELSE c1
      t3 == IF "pyproject.toml" \in project.files THEN "python" ELSE t2
      c3 == IF "pyproject.toml" \in project.files
            THEN c2 \o <<"Data Layer", "API">> ELSE c2
  IN [type |-> t3, categories |-> c3]

\* main: the three `continue` tests at the head of the suite loop.
VaSkipsSuite(suite, args, info) ==
  \/ suite.category \notin Range(info.categories)
  \/ suite.requires_url /\ args.url # "given"
  \/ args.no_e2e /\ suite.category = "E2E Testing"

\* run_script: the result for a missing script.
VaSkipped(check, category) ==
  [name |-> check.name, skill |-> check.skill, passed |-> TRUE,
   skipped |-> TRUE, error |-> "", category |-> category]

\* run_script with a timeout or an exception recorded as a skipped check.
VaResultTimeoutSkipped(check, category, outcome) ==
  [name |-> check.name, skill |-> check.skill,
   passed |-> (outcome \notin {"fail"}),
   skipped |-> (outcome \in {"timeout", "error"}),
   error |-> CASE outcome = "timeout" -> "Timeout"
               [] outcome = "error" -> "exception"
               [] outcome = "fail" -> "stderr"
               [] OTHER -> "",
   category |-> category]

\* run_script: the result of a launched script.
VaResult(check, category, outcome) ==
  [name |-> check.name, skill |-> check.skill,
   passed |-> (outcome = "pass"), skipped |-> FALSE,
   error |-> CASE outcome = "timeout" -> "Timeout"
               [] outcome = "error" -> "exception"
               [] outcome = "fail" -> "stderr"
               [] OTHER -> "",
   category |-> category]

\* main: the --stop-on-fail test after a check.
VaStops(args, check, result) ==
  args.stop_on_fail /\ check.required /\ ~result.passed /\ ~result.skipped

\* print_final_report: TRUE when no check failed.
VaAllPassed(results) ==
  Cardinality({i \in 1..Len(results) :
                 ~results[i].passed /\ ~results[i].skipped}) = 0

VaArgs ==
  [project_exists : BOOLEAN, url : {"empty", "given"},
   no_e2e : BOOLEAN, stop_on_fail : BOOLEAN]

VaNoInfo == [type |-> "unset", categories |-> <<>>]

VaInit ==
  /\ va_args \in VaArgs
  /\ \E kind \in VaProjectKinds, scripts \in SubsetsUpTo(VaScriptNames, MaxScripts) :
       va_project =
         IF va_args.project_exists
         THEN [pkg |-> kind.pkg, deps |-> kind.deps, files |-> kind.files,
               scripts |-> scripts]
         ELSE [pkg |-> "absent", deps |-> {}, files |-> {}, scripts |-> {}]
  /\ va_pc = "main"
  /\ va_project_info = VaNoInfo
  /\ va_suites = <<>>
  /\ va_category = "none"
  /\ va_todo = <<>>
  /\ va_running = NoCheck
  /\ va_results = <<>>
  /\ va_report = FALSE
  /\ va_exit = -1

VaIdle ==
  /\ va_args = [project_exists |-> FALSE, url |-> "empty", no_e2e |-> FALSE,
                stop_on_fail |-> FALSE]
  /\ va_project = [pkg |-> "absent", deps |-> {}, files |-> {}, scripts |-> {}]
  /\ va_pc = "off"
  /\ va_project_info = VaNoInfo
  /\ va_suites = <<>>
  /\ va_category = "none"
  /\ va_todo = <<>>
  /\ va_running = NoCheck
  /\ va_results = <<>>
  /\ va_report = FALSE
  /\ va_exit = -1

\* main up to the suite loop.
VaMain ==
  /\ va_pc = "main"
  /\ IF ~va_args.project_exists
     THEN /\ va_pc' = "exited"
          /\ va_exit' = 1
          /\ UNCHANGED <<va_project_info, va_suites>>
     ELSE /\ va_project_info' = VaDetectProjectType(va_project)
          /\ va_suites' = SortByPriority(VERIFICATION_SUITE)
          /\ va_pc' = "suites"
          /\ va_exit' = va_exit
  /\ UNCHANGED <<va_args, va_project, va_category, va_todo, va_running,
                 va_results, va_report>>
  /\ UNCHANGED vaOthers

\* Head of the suite loop: skip the suite or start on its checks.
VaNextSuite ==
  /\ va_pc = "suites"
  /\ va_suites # <<>>
  /\ LET suite == Head(va_suites)
     IN /\ va_suites' = Tail(va_suites)
        /\ IF VaSkipsSuite(suite, va_args, va_project_info)
           THEN UNCHANGED <<va_category, va_todo, va_pc>>
           ELSE /\ va_category' = suite.category
                /\ va_todo' = suite.checks
                /\ va_pc' = "checks"
  /\ UNCHANGED <<va_args, va_project, va_project_info, va_running, va_results,
                 va_report, va_exit>>
  /\ UNCHANGED vaOthers

\* run_script up to subprocess.run, for the next check of the suite.
VaRunScript ==
  /\ va_pc = "checks"
  /\ va_running = NoCheck
  /\ va_todo # <<>>
  /\ LET check == Head(va_todo)
     IN IF check.name \notin va_project.scripts
        THEN /\ va_results' = Append(va_results, VaSkipped(check, va_category))
             /\ va_todo' = Tail(va_todo)
             /\ UNCHANGED va_running
        ELSE /\ va_running' = check.name
             /\ UNCHANGED <<va_results, va_todo>>
  /\ UNCHANGED <<va_args, va_project, va_pc, va_project_info, va_suites,
                 va_category, va_report, va_exit>>
  /\ UNCHANGED vaOthers

\* The subprocess ends: the rest of run_script, then the --stop-on-fail
\* test with print_final_report and sys.exit(1).
VaScriptEnds ==
  /\ va_pc = "checks"
  /\ va_running # NoCheck
  /\ \E outcome \in Outcomes :
       LET check == Head(va_todo)
           result == VaResult(check, va_category, outcome)
       IN /\ va_results' = Append(va_results, result)
          /\ va_running' = NoCheck
          /\ IF VaStops(va_args, check, result)
             THEN /\ va_report' = TRUE
                  /\ va_exit' = 1
                  /\ va_pc' = "exited"
                  /\ UNCHANGED va_todo
             ELSE /\ va_todo' = Tail(va_todo)
                  /\ UNCHANGED <<va_report, va_exit, va_pc>>
  /\ UNCHANGED <<va_args, va_project, va_project_info, va_suites, va_category>>
  /\ UNCHANGED vaOthers

\* The checks of the suite are done: back to the suite loop.
VaSuiteDone ==
  /\ va_pc = "checks"
  /\ va_running = NoCheck
  /\ va_todo = <<>>
  /\ va_pc' = "suites"
  /\ UNCHANGED <<va_args, va_project, va_project_info, va_suites, va_category,
                 va_todo, va_running, va_results, va_report, va_exit>>
  /\ UNCHANGED vaOthers

\* print_final_report and sys.exit at the end of main.
VaFinalReport ==
  /\ va_pc = "suites"
  /\ va_suites = <<>>
  /\ va_report' = TRUE
  /\ va_exit' = IF VaAllPassed(va_results) THEN 0 ELSE 1
  /\ va_pc' = "exited"
  /\ UNCHANGED <<va_args, va_project, va_project_info, va_suites, va_category,
                 va_todo, va_running, va_results>>
  /\ UNCHANGED vaOthers

\* ------------------------------------------------------------------------
\* security_scan.py
\* ------------------------------------------------------------------------
\* A findings list is kept run-length encoded: a sequence of runs, each n
\* findings of one severity in a row.

\* results["findings"][:15] of scan_secrets
SecretsLimit == 15

\* results["findings"][:20] of scan_patterns
PatternsLimit == 20

\* Severities in SECRET_PATTERNS and in DANGEROUS_PATTERNS.
SecretSeverities == {"critical", "high"}
PatternSeverities == {"critical", "high", "medium"}

\* Python findings[:limit]
RECURSIVE Truncate(_, _)
Truncate(findings, limit) ==
  IF findings = <<>> \/ limit = 0 THEN <<>>
  ELSE IF Head(findings).n <= limit
  THEN <<Head(findings)>> \o Truncate(Tail(findings), limit - Head(findings).n)
  ELSE <<[severity |-> Head(findings).severity, n |-> limit]>>

\* len(findings)
RECURSIVE CountFindings(_)
CountFindings(findings) ==
  IF findings = <<>> THEN 0
  ELSE Head(findings).n + CountFindings(Tail(findings))

\* Number of findings of one severity.
CountSeverity(findings, severity) ==
  CountFindings(SelectSeq(findings, LAMBDA r : r.severity = severity))

\* Findings lists with at most k runs, each of 1 or `limit` findings.
RECURSIVE FindingsUpTo(_, _, _)
FindingsUpTo(severities, limit, k) ==
  IF k = 0 THEN {<<>>}
  ELSE LET shorter == FindingsUpTo(severities, limit, k - 1)
       IN shorter \cup
            {Append(f, [severity |-> sev, n |-> n]) :
               f \in shorter, sev \in severities, n \in {1, limit}}

\* What scan_dependencies sees: package.json, an npm lock file,
\* requirements.txt, poetry.lock, and how `npm audit --json` ends.
DependencyFacts ==
  [package_json : BOOLEAN, npm_lock : BOOLEAN, requirements : BOOLEAN,
   poetry_lock : BOOLEAN,
   audit : {"unavailable", "clean", "high", "critical"}]

\* scan_dependencies
ScanDependencies(facts) ==
  LET npm_missing ==
        IF facts.package_json /\ ~facts.npm_lock
        THEN <<[severity |-> "high", n |-> 1]>> ELSE <<>>
      pip_missing ==
        IF facts.requirements /\ ~(facts.requirements \/ facts.poetry_lock)
        THEN <<[severity |-> "high", n |-> 1]>> ELSE <<>>
      audited == facts.package_json /\ facts.audit # "unavailable"
      audit_finding ==
        IF audited /\ facts.audit = "critical"
        THEN <<[severity |-> "critical", n |-> 1]>> ELSE <<>>
  IN [tool |-> "dependency_scanner",
      findings |-> npm_missing \o pip_missing \o audit_finding,
      status |-> IF audited /\ facts.audit = "critical"
                 THEN "Critical vulnerabilities"
                 ELSE IF audited /\ facts.audit = "high"
                 THEN "High vulnerabilities"
                 ELSE "Secure"]

\* scan_secrets, given every finding in file order.
ScanSecrets(found) ==
  [tool |-> "secret_scanner",
   findings |-> Truncate(found, SecretsLimit),
   status |-> IF CountSeverity(found, "critical") > 0
              THEN "CRITICAL: Secrets exposed!"
              ELSE IF CountSeverity(found, "high") > 0
              THEN "HIGH: Secrets found"
              ELSE "No secrets"]

\* scan_patterns, given every finding in file and line order.
ScanPatterns(found) ==
  [tool |-> "pattern_scanner",
   findings |-> Truncate(found, PatternsLimit),
   status |-> IF CountSeverity(found, "critical") > 0
              THEN "CRITICAL: dangerous patterns"
              ELSE IF found # <<>> THEN "Patterns need review"
              ELSE "No dangerous patterns"]

\* run_full_scan: the summary after one more scanner result.
SsAddToSummary(summary, result) ==
  [total_findings |-> summary.total_findings + CountFindings(result.findings),
   critical |-> summary.critical + CountSeverity(result.findings, "critical"),
   high |-> summary.high + CountSeverity(result.findings, "high"),
   overall_status |-> summary.overall_status]

\* run_full_scan: overall_status from the counts.
SsOverallStatus(summary) ==
  IF summary.critical > 0 THEN "CRITICAL ISSUES"
  ELSE IF summary.high > 0 THEN "HIGH RISK"
  ELSE IF summary.total_findings > 0 THEN "REVIEW NEEDED"
  ELSE "SECURE"

\* An exit status that also fails on high findings.
SsExitStatusHighToo(report) ==
  IF report.summary.critical > 0 \/ report.summary.high > 0 THEN 1 ELSE 0

\* main: sys.exit(1 if result['summary']['critical'] > 0 else 0)
SsExitStatus(report) == IF report.summary.critical > 0 THEN 1 ELSE 0

SsArgs ==
  [is_dir : BOOLEAN, scan_type : {"all", "deps", "secrets", "patterns"},
   output : {"json", "summary"}]

NoScans == [name \in {} |-> {}]

\* report at the start of run_full_scan
SsEmptyReport ==
  [scans |-> NoScans,
   summary |-> [total_findings |-> 0, critical |-> 0, high |-> 0,
                overall_status |-> "SECURE"]]

SsInit ==
  /\ ss_args \in SsArgs
  /\ ss_pc = "main"
  /\ ss_report = SsEmptyReport
  /\ ss_exit = -1

SsIdle ==
  /\ ss_args = [is_dir |-> FALSE, scan_type |-> "all", output |-> "summary"]
  /\ ss_pc = "off"
  /\ ss_report = SsEmptyReport
  /\ ss_exit = -1

\* main: the directory test.
SsMain ==
  /\ ss_pc = "main"
  /\ IF ~ss_args.is_dir
     THEN /\ ss_pc' = "exited"
          /\ ss_exit' = 1
     ELSE /\ ss_pc' = "deps"
          /\ UNCHANGED ss_exit
  /\ UNCHANGED <<ss_args, ss_report>>
  /\ UNCHANGED ssOthers

\* run_full_scan: one turn of the scanner loop, for the scanner `key`
\* whose result is `result`, stored under `name`.
SsScannerTurn(key, name, result, next_pc) ==
  /\ ss_pc = key
  /\ ss_pc' = next_pc
  /\ IF ss_args.scan_type \in {"all", key}
     THEN ss_report' =
            [scans |-> (name :> result) @@ ss_report.scans,
             summary |-> SsAddToSummary(ss_report.summary, result)]
     ELSE UNCHANGED ss_report
  /\ UNCHANGED <<ss_args, ss_exit>>
  /\ UNCHANGED ssOthers

SsDeps ==
  \E facts \in DependencyFacts :
    SsScannerTurn("deps", "dependencies", ScanDependencies(facts), "secrets")

SsSecrets ==
  \E found \in FindingsUpTo(SecretSeverities, SecretsLimit, MaxRuns) :
    SsScannerTurn("secrets", "secrets", ScanSecrets(found), "patterns")

SsPatterns ==
  \E found \in FindingsUpTo(PatternSeverities, PatternsLimit, MaxRuns) :
    SsScannerTurn("patterns", "code_patterns", ScanPatterns(found), "status")

\* run_full_scan: overall_status, then main prints and exits.
SsFinish ==
  /\ ss_pc = "status"
  /\ ss_report' =
       [ss_report EXCEPT !.summary.overall_status =
                           SsOverallStatus(ss_report.summary)]
  /\ ss_exit' = SsExitStatus(ss_report')
  /\ ss_pc' = "exited"
  /\ UNCHANGED ss_args
  /\ UNCHANGED ssOthers

\* ------------------------------------------------------------------------
\* validate_kit.py
\* ------------------------------------------------------------------------
\* The text of a markdown file is a sequence of tokens: "---" is a line of
\* three dashes, a token ending in ":" is a line starting with that field,
\* ".agent/" a line with a .agent/ path, "pad" 500 characters of other text.

REQUIRED_RULE_FILES == <<"GEMINI.md", "CLAUDE.md", "CURSOR.md", "AGENTS.md">>
REQUIRED_DIRS == <<"agents", "skills", "rules">>
RECOMMENDED_DIRS == <<"workflows", "scripts">>

\* content[:500]
HeadWindow == 500

\* Number of characters of a token's line, and of the field name in it.
TokenLen(t) ==
  CASE t = "---" -> 4
    [] t = "pad" -> 500
    [] t = ".agent/" -> 20
    [] t = "trigger:" -> 19
    [] t = "description:" -> 24
    [] t = "alwaysApply:" -> 18
    [] t = "name:" -> 12
    [] t = "skills:" -> 20

LiteralLen(t) ==
  CASE t = "trigger:" -> 8
    [] t = "description:" -> 12
    [] t = "alwaysApply:" -> 12
    [] t = "name:" -> 5
    [] t = "skills:" -> 7
    [] t = ".agent/" -> 7
    [] t = "---" -> 3

\* Character offset of token i.
RECURSIVE Offset(_, _)
Offset(content, i) ==
  IF i <= 1 THEN 0 ELSE Offset(content, i - 1) + TokenLen(content[i - 1])

\* content.startswith("---")
StartsWithDashes(content) == Len(content) > 0 /\ content[1] = "---"

\* field in content[:500]
InHead(field, content) ==
  \E i \in 1..Len(content) :
    content[i] = field /\ Offset(content, i) + LiteralLen(field) <= HeadWindow

\* field in content
InContent(field, content) == \E i \in 1..Len(content) : content[i] = field

\* content.find("---", 3): the index of the next "---" token, 0 for -1.
FrontmatterEnd(content) ==
  IF \E i \in 2..Len(content) : content[i] = "---"
  THEN CHOOSE i \in 2..Len(content) :
         content[i] = "---" /\ \A j \in 2..(i - 1) : content[j] # "---"
  ELSE 0

\* content[3:frontmatter_end]
Frontmatter(content) == SubSeq(content, 2, FrontmatterEnd(content) - 1)

\* Token sequences over an alphabet, at most n long.
RECURSIVE TokenSeqs(_, _)
TokenSeqs(alphabet, n) ==
  IF n = 0 THEN {<<>>}
  ELSE LET shorter == TokenSeqs(alphabet, n - 1)
       IN shorter \cup {Append(c, t) : c \in shorter, t \in alphabet}

\* Sequences of elements of S, at most n long.
RECURSIVE SeqsUpTo(_, _)
SeqsUpTo(S, n) ==
  IF n = 0 THEN {<<>>}
  ELSE LET shorter == SeqsUpTo(S, n - 1)
       IN shorter \cup {Append(q, x) : q \in shorter, x \in S}

Absent == <<"absent">>

\* Texts a rule file may hold.
RuleFileAlphabet(rule_file) ==
  CASE rule_file = "GEMINI.md" -> {"---", "trigger:", "pad"}
    [] rule_file = "CURSOR.md" -> {"---", "description:", "alwaysApply:"}
    [] OTHER -> {"---", ".agent/"}

RuleFileContents(rule_file) == TokenSeqs(RuleFileAlphabet(rule_file), MaxTokens)

\* The text of the rule file in a complete kit.
RuleFileDefault(rule_file) ==
  CASE rule_file = "GEMINI.md" -> <<"---", "trigger:", "---">>
    [] rule_file = "CURSOR.md" -> <<"---", "description:", "---">>
    [] OTHER -> <<".agent/">>

\* A file with frontmatter (opened, closed or neither) holding the given
\* field lines, followed or not by a body line.
FileText(open, fields, close, body) ==
  (IF open THEN <<"---">> ELSE <<>>) \o fields
    \o (IF close THEN <<"---">> ELSE <<>>) \o body

\* Texts an agent file may hold.
AgentContents ==
  {FileText(open, fields, close, body) :
     open \in BOOLEAN, close \in BOOLEAN,
     fields \in {<<>>, <<"name:", "description:">>,
                 <<"name:", "description:", "skills:">>},
     body \in {<<>>, <<"skills:">>}}

AgentDefault == <<"---", "name:", "description:", "skills:", "---">>

\* A skill directory: SKILL.md is absent or holds a text.
SkillContents ==
  {Absent} \cup
    {FileText(open, fields, close, body) :
       open \in BOOLEAN, close \in BOOLEAN,
       fields \in {<<>>, <<"name:">>, <<"name:", "description:">>},
       body \in {<<>>}}

SkillDefault == <<"---", "name:", "description:", "---">>

\* Texts a workflow file may hold.
WorkflowContents ==
  {FileText(open, fields, TRUE, <<>>) :
     open \in BOOLEAN,
     fields \in {<<>>, <<"description:">>, <<"pad", "description:">>}}

WorkflowDefault == <<"---", "description:", "---">>

\* Sections of ARCHITECTURE.md that required_sections looks for.
ArchSections == {"Overview", "Agents", "Skills", "Statistics"}

\* The directories of a kit, each "none", "file" or "dir".
KitDirs ==
  [agents : {"none", "file", "dir"}, skills : {"none", "file", "dir"},
   rules : {"none", "file", "dir"}, workflows : {"none", "dir"},
   scripts : {"none", "dir"}]

DirDefects(dirs) ==
  Cardinality({d \in DOMAIN dirs : dirs[d] # "dir"})

\* Number of files of a listing that differ from the complete kit's.
FileDefects(files, default) ==
  (IF files = <<>> THEN 1 ELSE 0)
    + Cardinality({i \in 1..Len(files) : files[i] # default})

ValidationResult(passed, kind, subject, category, severity) ==
  [passed |-> passed, kind |-> kind, subject |-> subject,
   category |-> category, severity |-> severity]

\* validate_all: the overall result, counting failed WARNING entries too.
VkPassesWithoutWarnings(results) ==
  {i \in 1..Len(results) : ~results[i].passed} = {}

\* validate_all: no failed entry of severity ERROR.
VkPasses(results) ==
  {i \in 1..Len(results) :
     ~results[i].passed /\ results[i].severity = "ERROR"} = {}

VkNoStats ==
  [agents |-> 0, skills |-> 0, workflows |-> 0, scripts |-> 0, rule_files |-> 0]

\* ARCHITECTURE.md: absent, or present with the sections found in it.
ArchFiles ==
  {[present |-> FALSE, sections |-> {}]}
    \cup {[present |-> TRUE, sections |-> S] : S \in SUBSET ArchSections}

VkUnread ==
  [arch |-> "unread", rule_files |-> [f \in Range(REQUIRED_RULE_FILES) |-> "unread"]]

VkInit ==
  /\ \E exists \in BOOLEAN, dirs \in KitDirs :
       /\ DirDefects(dirs) <= MaxDefects
       /\ exists \/ DirDefects(dirs) = 0
       /\ vk_kit = [exists |-> exists, dirs |-> dirs] @@ VkUnread
       /\ vk_budget = MaxDefects - DirDefects(dirs)
  /\ vk_verbose \in BOOLEAN
  /\ vk_pc = "validate_all"
  /\ vk_results = <<>>
  /\ vk_stats = VkNoStats
  /\ vk_todo = <<>>
  /\ vk_rule_file = "none"
  /\ vk_content = <<>>
  /\ vk_success = FALSE
  /\ vk_exit = -1

VkIdle ==
  /\ vk_kit = [exists |-> FALSE,
               dirs |-> [d \in {"agents", "skills", "rules", "workflows",
                                "scripts"} |-> "dir"]] @@ VkUnread
  /\ vk_budget = 0
  /\ vk_verbose = FALSE
  /\ vk_pc = "off"
  /\ vk_results = <<>>
  /\ vk_stats = VkNoStats
  /\ vk_todo = <<>>
  /\ vk_rule_file = "none"
  /\ vk_content = <<>>
  /\ vk_success = FALSE
  /\ vk_exit = -1

\* dir_path.exists() and dir_path.exists() and dir_path.is_dir()
VkExists(dir_name) == vk_kit.dirs[dir_name] # "none"
VkIsDir(dir_name) == vk_kit.dirs[dir_name] = "dir"

\* validate_all: the kit path test.
VkValidateAll ==
  /\ vk_pc = "validate_all"
  /\ IF ~vk_kit.exists
     THEN /\ vk_results' =
               Append(vk_results,
                      ValidationResult(FALSE, "Kit path does not exist", "kit",
                                       "structure", "ERROR"))
          /\ vk_success' = FALSE
          /\ vk_pc' = "returned"
     ELSE /\ vk_pc' = "structure"
          /\ UNCHANGED <<vk_results, vk_success>>
  /\ UNCHANGED <<vk_kit, vk_verbose, vk_stats, vk_todo, vk_rule_file,
                 vk_content, vk_exit, vk_budget>>
  /\ UNCHANGED vkOthers

\* _validate_structure: the entries for the required directories.
VkRequiredDirResults ==
  [i \in 1..Len(REQUIRED_DIRS) |->
     IF VkIsDir(REQUIRED_DIRS[i])
     THEN ValidationResult(TRUE, "Required directory exists", REQUIRED_DIRS[i],
                           "structure", "INFO")
     ELSE ValidationResult(FALSE, "Missing required directory",
                           REQUIRED_DIRS[i], "structure", "ERROR")]

\* _validate_structure: the entries for the recommended directories.
VkRecommendedDirResults ==
  [i \in 1..Len(RECOMMENDED_DIRS) |->
     IF VkIsDir(RECOMMENDED_DIRS[i])
     THEN ValidationResult(TRUE, "Recommended directory exists",
                           RECOMMENDED_DIRS[i], "structure", "INFO")
     ELSE ValidationResult(TRUE, "Optional directory missing",
                           RECOMMENDED_DIRS[i], "structure", "WARNING")]

VkValidateStructure ==
  /\ vk_pc = "structure"
  /\ vk_results' = vk_results \o VkRequiredDirResults \o VkRecommendedDirResults
  /\ vk_pc' = "architecture"
  /\ UNCHANGED <<vk_kit, vk_verbose, vk_stats, vk_todo, vk_rule_file,
                 vk_content, vk_success, vk_exit, vk_budget>>
  /\ UNCHANGED vkOthers

\* _validate_architecture_md: the entries for the sections, in the order of
\* required_sections.
VkSectionResults(found) ==
  [i \in 1..4 |->
     LET section_name == <<"Overview", "Agents", "Skills", "Statistics">>[i]
     IN IF section_name \in found
        THEN ValidationResult(TRUE, "Section found", section_name, "content",
                              "INFO")
        ELSE ValidationResult(FALSE, "Missing section in ARCHITECTURE.md",
                              section_name, "content", "ERROR")]

VkValidateArchitectureMd ==
  /\ vk_pc = "architecture"
  /\ \E arch \in ArchFiles :
       LET cost == IF arch.present
                   THEN Cardinality(ArchSections \ arch.sections) ELSE 1
       IN /\ cost <= vk_budget
          /\ vk_budget' = vk_budget - cost
          /\ vk_kit' = [vk_kit EXCEPT !.arch = IF arch.present THEN "present"
                                                ELSE "absent"]
          /\ vk_results' =
               IF ~arch.present
               THEN Append(vk_results,
                           ValidationResult(FALSE, "Missing required file",
                                            "ARCHITECTURE.md", "content", "ERROR"))
               ELSE Append(vk_results,
                           ValidationResult(TRUE, "ARCHITECTURE.md exists",
                                            "ARCHITECTURE.md", "content", "INFO"))
                      \o VkSectionResults(arch.sections)
  /\ vk_pc' = "rules_folder"
  /\ UNCHANGED <<vk_verbose, vk_stats, vk_todo, vk_rule_file, vk_content,
                 vk_success, vk_exit>>
  /\ UNCHANGED vkOthers

\* _validate_rules_folder: the test of the rules/ folder.
VkValidateRulesFolder ==
  /\ vk_pc = "rules_folder"
  /\ IF ~VkExists("rules")
     THEN /\ vk_results' =
               Append(vk_results,
                      ValidationResult(FALSE, "Missing rules/ folder", "rules",
                                       "rules", "ERROR"))
          /\ vk_pc' = "agents"
          /\ UNCHANGED vk_todo
     ELSE /\ vk_todo' = REQUIRED_RULE_FILES
          /\ vk_pc' = "rule_files"
          /\ UNCHANGED vk_results
  /\ UNCHANGED <<vk_kit, vk_verbose, vk_stats, vk_rule_file, vk_content,
                 vk_success, vk_exit, vk_budget>>
  /\ UNCHANGED vkOthers

\* frontmatter_requirements
FrontmatterRequirements(rule_file) ==
  CASE rule_file = "GEMINI.md" -> [required |-> TRUE, fields |-> <<"trigger:">>]
    [] rule_file = "CURSOR.md" ->
         [required |-> TRUE, fields |-> <<"description:", "alwaysApply:">>]
    [] OTHER -> [required |-> FALSE, fields |-> <<>>]

\* _validate_rules_folder: the entries of one existing rule file.
VkRuleFileResults(rule_file, content, verbose) ==
  LET requirements == FrontmatterRequirements(rule_file)
      has_required_field ==
        \E i \in 1..Len(requirements.fields) :
          InHead(requirements.fields[i], content)
  IN <<ValidationResult(TRUE, "Rule file exists", rule_file, "rules", "INFO")>>
       \o (IF requirements.required
           THEN IF StartsWithDashes(content)
                THEN IF has_required_field
                     THEN <<ValidationResult(TRUE, "Frontmatter valid", rule_file,
                                             "rules", "INFO")>>
                     ELSE <<ValidationResult(FALSE, "Missing field in frontmatter",
                                             rule_file, "rules", "ERROR")>>
                ELSE <<ValidationResult(FALSE, "Missing YAML frontmatter",
                                        rule_file, "rules", "ERROR")>>
           ELSE IF verbose
                THEN <<ValidationResult(TRUE, "Rule file OK", rule_file, "rules",
                                        "INFO")>>
                ELSE <<>>)

\* _validate_rules_folder: one turn of the loop over REQUIRED_RULE_FILES.
\* Under a rules that is no directory no rule file exists.
VkValidateRuleFile ==
  /\ vk_pc = "rule_files"
  /\ vk_todo # <<>>
  /\ LET rule_file == Head(vk_todo)
     IN \E content \in (IF VkIsDir("rules")
                        THEN {Absent} \cup RuleFileContents(rule_file)
                        ELSE {Absent}) :
          LET cost == IF content = RuleFileDefault(rule_file) \/ ~VkIsDir("rules")
                      THEN 0 ELSE 1
          IN /\ cost <= vk_budget
             /\ vk_budget' = vk_budget - cost
             /\ vk_rule_file' = rule_file
             /\ vk_content' = content
             /\ vk_kit' =
                  [vk_kit EXCEPT !.rule_files[rule_file] =
                     IF content = Absent THEN "absent"
                     ELSE IF InContent(".agent/", content) THEN "agent_path"
                     ELSE "present"]
             /\ IF content = Absent
                THEN /\ vk_results' =
                          Append(vk_results,
                                 ValidationResult(FALSE, "Missing required rule file",
                                                  rule_file, "rules", "ERROR"))
                     /\ UNCHANGED vk_stats
                ELSE /\ vk_results' =
                          vk_results \o VkRuleFileResults(rule_file, content, vk_verbose)
                     /\ vk_stats' =
                          [vk_stats EXCEPT !.rule_files = vk_stats.rule_files + 1]
  /\ vk_todo' = Tail(vk_todo)
  /\ UNCHANGED <<vk_verbose, vk_pc, vk_success, vk_exit>>
  /\ UNCHANGED vkOthers

\* _validate_rules_folder: the loop is over and the function returns, its
\* locals with it.
VkRuleFilesDone ==
  /\ vk_pc = "rule_files"
  /\ vk_todo = <<>>
  /\ vk_pc' = "agents"
  /\ vk_rule_file' = "none"
  /\ vk_content' = <<>>
  /\ UNCHANGED <<vk_kit, vk_verbose, vk_results, vk_stats, vk_todo,
                 vk_success, vk_exit, vk_budget>>
  /\ UNCHANGED vkOthers

\* _validate_agents: the entries of one agent file.
VkAgentFileResults(name, content, verbose) ==
  IF ~StartsWithDashes(content)
  THEN <<ValidationResult(FALSE, "Missing frontmatter", name, "agents", "ERROR")>>
  ELSE IF FrontmatterEnd(content) = 0
  THEN <<ValidationResult(FALSE, "Invalid frontmatter", name, "agents", "ERROR")>>
  ELSE LET frontmatter == Frontmatter(content)
           required_fields == <<"name:", "description:", "skills:">>
           entry(field) ==
             IF InContent(field, frontmatter)
             THEN IF verbose
                  THEN <<ValidationResult(TRUE, "has " \o field, name, "agents",
                                          "INFO")>>
                  ELSE <<>>
             ELSE <<ValidationResult(FALSE, "missing " \o field, name, "agents",
                                     "WARNING")>>
       IN entry(required_fields[1]) \o entry(required_fields[2])
            \o entry(required_fields[3])

\* _validate_skills: the entries of one skill directory.
VkSkillDirResults(name, content, verbose) ==
  IF content = Absent
  THEN <<ValidationResult(FALSE, "Missing SKILL.md", name, "skills", "ERROR")>>
  ELSE IF ~StartsWithDashes(content)
  THEN <<ValidationResult(FALSE, "Missing frontmatter", name, "skills", "ERROR")>>
  ELSE IF FrontmatterEnd(content) = 0
  THEN <<>>
  ELSE IF InContent("name:", Frontmatter(content))
            /\ InContent("description:", Frontmatter(content))
  THEN IF verbose
       THEN <<ValidationResult(TRUE, "valid frontmatter", name, "skills", "INFO")>>
       ELSE <<>>
  ELSE <<ValidationResult(FALSE, "missing name/description", name, "skills",
                          "WARNING")>>

\* _validate_workflows: the entries of one workflow file.
VkWorkflowFileResults(name, content, verbose) ==
  IF StartsWithDashes(content) /\ InHead("description:", content)
  THEN IF verbose
       THEN <<ValidationResult(TRUE, "valid frontmatter", name, "workflows",
                               "INFO")>>
       ELSE <<>>
  ELSE <<ValidationResult(FALSE, "Missing description", name, "workflows",
                          "WARNING")>>

\* The entries of the files of a listing, file i being called i.
RECURSIVE VkFilesResults(_, _, _, _)
VkFilesResults(kind, files, i, verbose) ==
  IF i > Len(files) THEN <<>>
  ELSE (CASE kind = "agents" -> VkAgentFileResults(ToString(i), files[i], verbose)
          [] kind = "skills" -> VkSkillDirResults(ToString(i), files[i], verbose)
          [] kind = "workflows" ->
               VkWorkflowFileResults(ToString(i), files[i], verbose))
         \o VkFilesResults(kind, files, i + 1, verbose)

\* The listings of a directory that the budget still allows.
VkListings(contents, default) ==
  {files \in SeqsUpTo(contents, MaxFiles) :
     FileDefects(files, default) <= vk_budget}

\* _validate_agents; an agents that is a file lists no *.md.
VkValidateAgents ==
  /\ vk_pc = "agents"
  /\ IF ~VkExists("agents")
     THEN UNCHANGED <<vk_results, vk_stats, vk_budget>>
     ELSE \E agent_files \in (IF VkIsDir("agents")
                              THEN VkListings(AgentContents, AgentDefault)
                              ELSE {<<>>}) :
            /\ vk_budget' = IF VkIsDir("agents")
                            THEN vk_budget - FileDefects(agent_files, AgentDefault)
                            ELSE vk_budget
            /\ vk_stats' = [vk_stats EXCEPT !.agents = Len(agent_files)]
            /\ vk_results' =
                 IF Len(agent_files) = 0
                 THEN Append(vk_results,
                             ValidationResult(FALSE, "No agent files found", "agents",
                                              "agents", "ERROR"))
                 ELSE Append(vk_results,
                             ValidationResult(TRUE, "Found agents", ToString(Len(agent_files)),
                                              "agents", "INFO"))
                        \o VkFilesResults("agents", agent_files, 1, vk_verbose)
  /\ vk_pc' = "skills"
  /\ UNCHANGED <<vk_kit, vk_verbose, vk_todo, vk_rule_file, vk_content,
                 vk_success, vk_exit>>
  /\ UNCHANGED vkOthers

\* _validate_skills: skills_path.iterdir() raises on a skills that is a file,
\* and the script ends with a traceback and status 1.
VkSkillsIsNoDirectory ==
  /\ vk_pc = "skills"
  /\ VkExists("skills")
  /\ ~VkIsDir("skills")
  /\ vk_pc' = "crashed"
  /\ vk_exit' = 1
  /\ UNCHANGED <<vk_kit, vk_verbose, vk_results, vk_stats, vk_todo, vk_rule_file,
                 vk_content, vk_success, vk_budget>>
  /\ UNCHANGED vkOthers

\* _validate_skills
VkValidateSkills ==
  /\ vk_pc = "skills"
  /\ ~VkExists("skills") \/ VkIsDir("skills")
  /\ IF ~VkExists("skills")
     THEN UNCHANGED <<vk_results, vk_stats, vk_budget>>
     ELSE \E skill_dirs \in VkListings(SkillContents, SkillDefault) :
            /\ vk_budget' = vk_budget - FileDefects(skill_dirs, SkillDefault)
            /\ vk_stats' = [vk_stats EXCEPT !.skills = Len(skill_dirs)]
            /\ vk_results' =
                 IF Len(skill_dirs) = 0
                 THEN Append(vk_results,
                             ValidationResult(FALSE, "No skill directories found",
                                              "skills", "skills", "ERROR"))
                 ELSE Append(vk_results,
                             ValidationResult(TRUE, "Found skills", ToString(Len(skill_dirs)),
                                              "skills", "INFO"))
                        \o VkFilesResults("skills", skill_dirs, 1, vk_verbose)
  /\ vk_pc' = "workflows"
  /\ UNCHANGED <<vk_kit, vk_verbose, vk_todo, vk_rule_file, vk_content,
                 vk_success, vk_exit>>
  /\ UNCHANGED vkOthers

\* _validate_workflows
VkValidateWorkflows ==
  /\ vk_pc = "workflows"
  /\ IF ~VkExists("workflows")
     THEN /\ vk_results' =
               Append(vk_results,
                      ValidationResult(TRUE, "No workflows/ folder", "workflows",
                                       "workflows", "WARNING"))
          /\ UNCHANGED <<vk_stats, vk_budget>>
     ELSE \E workflow_files \in VkListings(WorkflowContents, WorkflowDefault) :
            /\ vk_budget' = vk_budget - FileDefects(workflow_files, WorkflowDefault)
            /\ vk_stats' = [vk_stats EXCEPT !.workflows = Len(workflow_files)]
            /\ vk_results' =
                 IF Len(workflow_files) = 0
                 THEN Append(vk_results,
                             ValidationResult(TRUE, "No workflow files", "workflows",
                                              "workflows", "WARNING"))
                 ELSE Append(vk_results,
                             ValidationResult(TRUE, "Found workflows",
                                              ToString(Len(workflow_files)),
                                              "workflows", "INFO"))
                        \o VkFilesResults("workflows", workflow_files, 1, vk_verbose)
  /\ vk_pc' = "paths"
  /\ UNCHANGED <<vk_kit, vk_verbose, vk_todo, vk_rule_file, vk_content,
                 vk_success, vk_exit>>
  /\ UNCHANGED vkOthers

\* _validate_path_references: the entries for the rule files that mention
\* .agent/, listed in the order of REQUIRED_RULE_FILES.
RECURSIVE VkPlaceholderResults(_)
VkPlaceholderResults(i) ==
  IF i > Len(REQUIRED_RULE_FILES) THEN <<>>
  ELSE (IF vk_kit.rule_files[REQUIRED_RULE_FILES[i]] = "agent_path" /\ vk_verbose
        THEN <<ValidationResult(TRUE, "uses .agent/ placeholder",
                                REQUIRED_RULE_FILES[i], "paths", "INFO")>>
        ELSE <<>>)
         \o VkPlaceholderResults(i + 1)

\* _validate_path_references, then _print_results and the return of
\* validate_all.
VkValidatePathReferences ==
  /\ vk_pc = "paths"
  /\ LET results ==
           IF ~VkExists("rules") THEN vk_results
           ELSE vk_results \o VkPlaceholderResults(1)
                  \o <<ValidationResult(TRUE, "Path references look valid", "rules",
                                        "paths", "INFO")>>
     IN /\ vk_results' = results
        /\ vk_success' = VkPasses(results)
  /\ vk_pc' = "returned"
  /\ UNCHANGED <<vk_kit, vk_verbose, vk_stats, vk_todo, vk_rule_file,
                 vk_content, vk_exit, vk_budget>>
  /\ UNCHANGED vkOthers

\* main: sys.exit(0 if success else 1)
VkMain ==
  /\ vk_pc = "returned"
  /\ vk_exit' = IF vk_success THEN 0 ELSE 1
  /\ vk_pc' = "exited"
  /\ UNCHANGED <<vk_kit, vk_verbose, vk_results, vk_stats, vk_todo, vk_rule_file,
                 vk_content, vk_success, vk_budget>>
  /\ UNCHANGED vkOthers

\* ------------------------------------------------------------------------
\* The linters: i18n_checker.py, a11y_checker.py, api_validator.py,
\* seo_checker.py, schema_validator.py
\* ------------------------------------------------------------------------
\* One run of one linter on a project. The files a linter finds are its
\* input; a JSON object is the set of the paths to its leaves, a path being
\* the sequence of the keys on the way, each key a tuple of characters.

LinterScripts ==
  {"i18n_checker", "a11y_checker", "api_validator", "seo_checker",
   "schema_validator"}

\* f"{prefix}.{k}" along a path
RECURSIVE JoinDots(_)
JoinDots(path) ==
  IF Len(path) = 1 THEN path[1]
  ELSE JoinDots(SubSeq(path, 1, Len(path) - 1)) \o <<".">> \o path[Len(path)]

\* flatten_keys
flatten_keys(d) == {JoinDots(path) : path \in d}

\* What a locale file holds: text that json.loads rejects, or a JSON object.
Unparsable == {<<<<"!">>>>}

LocaleContents ==
  {Unparsable,
   {<<<<"a">>>>},
   {<<<<"a">>>>, <<<<"b">>>>},
   {<<<<"a">>>>, <<<<"b">>>>, <<<<"c">>>>, <<<<"d">>>>, <<<<"e">>>>},
   {<<<<"a">>, <<"b">>>>},
   {<<<<"a", ".", "b">>>>}}

\* A locale file: the name of its folder, its stem and what it holds.
LocaleFiles ==
  [lang : {"en", "fr"}, stem : {"common", "auth"}, content : LocaleContents]

\* What check_hardcoded_strings meets: the code files, those among the first
\* 50 that use an i18n pattern and those with a hardcoded string.
CodeFacts ==
  {[files |-> 0, with_i18n |-> 0, hardcoded |-> 0],
   [files |-> 1, with_i18n |-> 0, hardcoded |-> 0],
   [files |-> 1, with_i18n |-> 1, hardcoded |-> 0],
   [files |-> 4, with_i18n |-> 0, hardcoded |-> 4]}

\* The entries of a sequence, each once, in the order of first appearance.
RECURSIVE FirstSeen(_)
FirstSeen(s) ==
  IF s = <<>> THEN <<>>
  ELSE LET r == FirstSeen(SubSeq(s, 1, Len(s) - 1))
       IN IF s[Len(s)] \in Range(r) THEN r ELSE Append(r, s[Len(s)])

\* check_locale_completeness
check_locale_completeness(locale_files) ==
  LET parsed == SelectSeq(locale_files, LAMBDA f : f.content # Unparsable)
      all_langs == FirstSeen([i \in 1..Len(parsed) |-> parsed[i].lang])
      \* locales[lang]: the stems in insertion order, and its key sets
      stems(lang) ==
        FirstSeen([i \in 1..Len(SelectSeq(parsed, LAMBDA f : f.lang = lang)) |->
                     SelectSeq(parsed, LAMBDA f : f.lang = lang)[i].stem])
      has(lang, stem) ==
        \E i \in 1..Len(parsed) : parsed[i].lang = lang /\ parsed[i].stem = stem
      keys(lang, stem) ==
        IF has(lang, stem)
        THEN LET last == CHOOSE i \in 1..Len(parsed) :
                           /\ parsed[i].lang = lang /\ parsed[i].stem = stem
                           /\ \A j \in (i + 1)..Len(parsed) :
                                ~(parsed[j].lang = lang /\ parsed[j].stem = stem)
             IN flatten_keys(parsed[last].content)
        ELSE {}
      compare(namespace, lang) ==
        LET base_keys == keys(all_langs[1], namespace)
            other_keys == keys(lang, namespace)
            missing == base_keys \ other_keys
            extra == other_keys \ base_keys
        IN (IF missing # {}
            THEN <<[lang |-> lang, namespace |-> namespace, kind |-> "Missing",
                    n |-> Cardinality(missing)]>>
            ELSE <<>>)
             \o (IF extra # {} /\ Cardinality(extra) > 3
                 THEN <<[lang |-> lang, namespace |-> namespace, kind |-> "extra",
                         n |-> Cardinality(extra)]>>
                 ELSE <<>>)
      RECURSIVE others(_, _)
      others(namespace, i) ==
        IF i > Len(all_langs) THEN <<>>
        ELSE compare(namespace, all_langs[i]) \o others(namespace, i + 1)
      RECURSIVE namespaces(_)
      namespaces(i) ==
        IF i > Len(stems(all_langs[1])) THEN <<>>
        ELSE others(stems(all_langs[1])[i], 2) \o namespaces(i + 1)
  IN IF locale_files = <<>>
     THEN [passed |-> <<"No locale files found (not required)">>, issues |-> <<>>]
     ELSE IF Len(all_langs) < 2
     THEN [passed |-> <<"Found locale file(s)">>, issues |-> <<>>]
     ELSE LET issues == namespaces(1)
          IN [passed |-> <<"Found languages">>
                           \o (IF issues = <<>>
                               THEN <<"All locales have matching keys">>
                               ELSE <<>>),
              issues |-> issues]

\* check_hardcoded_strings, on the counts of the files it reads
check_hardcoded_strings(code) ==
  IF code.files = 0
  THEN [passed |-> <<"No code files found">>, issues |-> <<>>]
  ELSE [passed |->
          <<"Analyzed code files">>
            \o (IF code.with_i18n > 0 THEN <<"files use i18n patterns">> ELSE <<>>)
            \o (IF code.hardcoded > 0 THEN <<>>
                ELSE <<"No obvious hardcoded strings detected">>),
        issues |->
          IF code.hardcoded > 0
          THEN <<[kind |-> "files may have hardcoded strings",
                  n |-> code.hardcoded]>>
                 \o [i \in 1..(IF code.hardcoded < 3 THEN code.hardcoded ELSE 3) |->
                       [kind |-> "example", n |-> i]]
          ELSE <<>>]

\* What check_file, check_openapi_spec / check_api_code, check_page and the
\* validate_* functions return for one file: the lengths of the passed and
\* issues lists, within what their tests can add.
FileResults(script) ==
  CASE script = "a11y_checker" ->
         {[type |-> "ui", passed |-> p, issues |-> i] :
            p \in 0..1, i \in 0..6} \ {[type |-> "ui", passed |-> 0, issues |-> 0]}
    [] script = "api_validator" ->
         {[type |-> "openapi", passed |-> p, issues |-> i] : p \in 0..1, i \in 0..4}
           \cup {[type |-> "routes", passed |-> p, issues |-> i] :
                   p \in 0..1, i \in 0..3}
    [] script = "seo_checker" ->
         {[type |-> "page", passed |-> 7 - i + e, issues |-> i] :
            i \in 0..7, e \in {0, 5}}
           \cup {[type |-> "unreadable", passed |-> 0, issues |-> 1]}
    [] script = "schema_validator" ->
         {[type |-> "prisma", passed |-> 1, issues |-> i] : i \in {0, 1, 5, 10}}
           \cup {[type |-> "drizzle", passed |-> 2 - i, issues |-> i] : i \in 0..2}
           \cup {[type |-> "typeorm", passed |-> 3 - i, issues |-> i] : i \in 0..3}

\* sum(...) over a sequence of numbers
RECURSIVE Sum(_)
Sum(s) == IF s = <<>> THEN 0 ELSE s[1] + Sum(Tail(s))

\* round(num / den), Python's rounding of a half to the even neighbour
Round(num, den) ==
  LET q == num \div den
      r == num % den
  IN IF 2 * r > den \/ (2 * r = den /\ q % 2 = 1) THEN q + 1 ELSE q

LtNone == [none |-> TRUE]

LtInit ==
  /\ lt_script \in LinterScripts
  /\ lt_project \in
       IF lt_script = "i18n_checker"
       THEN [files : SeqsUpTo(LocaleFiles, MaxLinterFiles), code : CodeFacts]
       ELSE [files : SeqsUpTo(FileResults(lt_script), MaxLinterFiles),
             code : {[files |-> 0, with_i18n |-> 0, hardcoded |-> 0]}]
  /\ lt_pc = "main"
  /\ lt_locale_result = LtNone
  /\ lt_output = LtNone
  /\ lt_exit = -1

LtIdle ==
  /\ lt_script = "none"
  /\ lt_project = LtNone
  /\ lt_pc = "off"
  /\ lt_locale_result = LtNone
  /\ lt_output = LtNone
  /\ lt_exit = -1

\* sys.exit(0 if passed else 1), made to ignore passed
LinterExitAlwaysZero(passed) == 0

\* a11y_checker, api_validator, i18n_checker, seo_checker main:
\* sys.exit(0 if passed else 1)
LinterExit(passed) == IF passed THEN 0 ELSE 1

\* sys.exit(0) of schema_validator, made to follow passed
SchemaExitByPassed(passed) == IF passed THEN 0 ELSE 1

\* schema_validator main: sys.exit(0)
SchemaExit(passed) == 0

\* i18n_checker main
I18nMain ==
  /\ lt_pc = "main"
  /\ lt_script = "i18n_checker"
  /\ LET locale_result == check_locale_completeness(lt_project.files)
         code_result == check_hardcoded_strings(lt_project.code)
         all_issues == locale_result.issues \o code_result.issues
         critical ==
           Cardinality({i \in 1..Len(all_issues) :
                          all_issues[i].kind
                            \in {"Missing", "files may have hardcoded strings"}})
         passed == critical = 0
     IN /\ lt_locale_result' = locale_result
        /\ lt_output' =
             [script |-> "i18n_checker", locale_files |-> Len(lt_project.files),
              issues |-> Len(all_issues), passed |-> passed]
        /\ lt_exit' = LinterExit(passed)
  /\ lt_pc' = "exited"
  /\ UNCHANGED <<lt_script, lt_project>>
  /\ UNCHANGED ltOthers

\* a11y_checker main
A11yMain ==
  /\ lt_pc = "main"
  /\ lt_script = "a11y_checker"
  /\ LET files == lt_project.files
         total_passed == Sum([i \in 1..Len(files) |-> files[i].passed])
         total_issues == Sum([i \in 1..Len(files) |-> files[i].issues])
         passed == total_issues < 10
     IN IF files = <<>>
        THEN /\ lt_output' =
                  [script |-> "a11y_checker", files_checked |-> 0, passed |-> TRUE]
             /\ lt_exit' = 0
        ELSE /\ lt_output' =
                  [script |-> "a11y_checker", files_checked |-> Len(files),
                   patterns_found |-> total_passed, issues_found |-> total_issues,
                   passed |-> passed]
             /\ lt_exit' = LinterExit(passed)
  /\ lt_pc' = "exited"
  /\ UNCHANGED <<lt_script, lt_project, lt_locale_result>>
  /\ UNCHANGED ltOthers

\* api_validator main: of the issues of a file only the first three are
\* printed and counted.
ApiMain ==
  /\ lt_pc = "main"
  /\ lt_script = "api_validator"
  /\ LET api_files == lt_project.files
         total_passed == Sum([i \in 1..Len(api_files) |-> api_files[i].passed])
         total_issues ==
           Sum([i \in 1..Len(api_files) |->
                  IF api_files[i].issues < 3 THEN api_files[i].issues ELSE 3])
         passed == total_issues < 5
     IN IF api_files = <<>>
        THEN /\ lt_output' =
                  [script |-> "api_validator", files_checked |-> 0, passed |-> TRUE,
                   message |-> "No API files found"]
             /\ lt_exit' = 0
        ELSE /\ lt_output' =
                  [script |-> "api_validator", files_checked |-> Len(api_files),
                   total_passed |-> total_passed, total_issues |-> total_issues,
                   passed |-> passed]
             /\ lt_exit' = LinterExit(passed)
  /\ lt_pc' = "exited"
  /\ UNCHANGED <<lt_script, lt_project, lt_locale_result>>
  /\ UNCHANGED ltOthers

\* seo_checker main, with the score that check_page computes
SeoMain ==
  /\ lt_pc = "main"
  /\ lt_script = "seo_checker"
  /\ LET pages == lt_project.files
         score(page) ==
           IF page.type = "unreadable" THEN 0
           ELSE Round(page.passed * 100, page.passed + page.issues)
         total == Sum([i \in 1..Len(pages) |-> score(pages[i])])
     IN IF pages = <<>>
        THEN /\ lt_output' =
                  [script |-> "seo_checker", pages_checked |-> 0, passed |-> TRUE,
                   message |-> "No pages found"]
             /\ lt_exit' = 0
        ELSE /\ lt_output' =
                  [script |-> "seo_checker", pages_checked |-> Len(pages),
                   average_score |-> Round(total, Len(pages)),
                   passed |-> total >= 60 * Len(pages)]
             /\ lt_exit' = LinterExit(total >= 60 * Len(pages))
  /\ lt_pc' = "exited"
  /\ UNCHANGED <<lt_script, lt_project, lt_locale_result>>
  /\ UNCHANGED ltOthers

\* schema_validator main
SchemaMain ==
  /\ lt_pc = "main"
  /\ lt_script = "schema_validator"
  /\ LET schemas == lt_project.files
         total_issues == Sum([i \in 1..Len(schemas) |-> schemas[i].issues])
         passed == total_issues < 10
     IN IF schemas = <<>>
        THEN /\ lt_output' =
                  [script |-> "schema_validator", schemas_checked |-> 0,
                   passed |-> TRUE, message |-> "No schema files found"]
             /\ lt_exit' = 0
        ELSE /\ lt_output' =
                  [script |-> "schema_validator", schemas_checked |-> Len(schemas),
                   total_issues |-> total_issues, passed |-> passed,
                   results |-> schemas]
             /\ lt_exit' = SchemaExit(passed)
  /\ lt_pc' = "exited"
  /\ UNCHANGED <<lt_script, lt_project, lt_locale_result>>
  /\ UNCHANGED ltOthers

\* ------------------------------------------------------------------------
\* techstack_scanner.py
\* ------------------------------------------------------------------------
\* The scanner reads the workspace that the analyzer reads. Rows of the
\* marker tables are <<name, framework, category>>.

CONFIG_TO_LANGUAGE ==
  <<<<<<"p","a","c","k","a","g","e",".","j","s","o","n">>, <<"n","o","d","e","j","s">>>>,
    <<<<"t","s","c","o","n","f","i","g",".","j","s","o","n">>, <<"t","y","p","e","s","c","r","i","p","t">>>>,
    <<<<"p","u","b","s","p","e","c",".","y","a","m","l">>, <<"d","a","r","t">>>>,
    <<<<"p","y","p","r","o","j","e","c","t",".","t","o","m","l">>, <<"p","y","t","h","o","n">>>>,
    <<<<"r","e","q","u","i","r","e","m","e","n","t","s",".","t","x","t">>, <<"p","y","t","h","o","n">>>>,
    <<<<"C","a","r","g","o",".","t","o","m","l">>, <<"r","u","s","t">>>>,
    <<<<"g","o",".","m","o","d">>, <<"g","o">>>>,
    <<<<"b","u","i","l","d",".","g","r","a","d","l","e">>, <<"k","o","t","l","i","n">>>>,
    <<<<"b","u","i","l","d",".","g","r","a","d","l","e",".","k","t","s">>, <<"k","o","t","l","i","n">>>>,
    <<<<"P","o","d","f","i","l","e">>, <<"s","w","i","f","t">>>>,
    <<<<"c","o","m","p","o","s","e","r",".","j","s","o","n">>, <<"p","h","p">>>>,
    <<<<"G","e","m","f","i","l","e">>, <<"r","u","b","y">>>>>>

FRAMEWORK_MARKERS ==
  <<<<<<"n","e","x","t",".","c","o","n","f","i","g",".","j","s">>, <<"n","e","x","t","j","s">>, "frontend">>,
    <<<<"n","e","x","t",".","c","o","n","f","i","g",".","m","j","s">>, <<"n","e","x","t","j","s">>, "frontend">>,
    <<<<"n","e","x","t",".","c","o","n","f","i","g",".","t","s">>, <<"n","e","x","t","j","s">>, "frontend">>,
    <<<<"v","i","t","e",".","c","o","n","f","i","g",".","j","s">>, <<"v","i","t","e">>, "frontend">>,
    <<<<"v","i","t","e",".","c","o","n","f","i","g",".","t","s">>, <<"v","i","t","e">>, "frontend">>,
    <<<<"a","n","g","u","l","a","r",".","j","s","o","n">>, <<"a","n","g","u","l","a","r">>, "frontend">>,
    <<<<"n","u","x","t",".","c","o","n","f","i","g",".","j","s">>, <<"n","u","x","t","j","s">>, "frontend">>,
    <<<<"n","u","x","t",".","c","o","n","f","i","g",".","t","s">>, <<"n","u","x","t","j","s">>, "frontend">>,
    <<<<"t","a","i","l","w","i","n","d",".","c","o","n","f","i","g",".","j","s">>, <<"t","a","i","l","w","i","n","d","c","s","s">>, "styling">>,
    <<<<"t","a","i","l","w","i","n","d",".","c","o","n","f","i","g",".","t","s">>, <<"t","a","i","l","w","i","n","d","c","s","s">>, "styling">>,
    <<<<"t","a","i","l","w","i","n","d",".","c","o","n","f","i","g",".","m","j","s">>, <<"t","a","i","l","w","i","n","d","c","s","s">>, "styling">>,
    <<<<"D","o","c","k","e","r","f","i","l","e">>, <<"d","o","c","k","e","r">>, "devops">>,
    <<<<"d","o","c","k","e","r","-","c","o","m","p","o","s","e",".","y","m","l">>, <<"d","o","c","k","e","r","-","c","o","m","p","o","s","e">>, "devops">>,
    <<<<"d","o","c","k","e","r","-","c","o","m","p","o","s","e",".","y","a","m","l">>, <<"d","o","c","k","e","r","-","c","o","m","p","o","s","e">>, "devops">>,
    <<<<".","g","i","t","l","a","b","-","c","i",".","y","m","l">>, <<"g","i","t","l","a","b","-","c","i">>, "cicd">>,
    <<<<"p","u","b","s","p","e","c",".","y","a","m","l">>, <<"f","l","u","t","t","e","r">>, "mobile">>>>

DIRECTORY_MARKERS ==
  <<<<<<".","g","i","t","h","u","b","/","w","o","r","k","f","l","o","w","s">>, <<"g","i","t","h","u","b","-","a","c","t","i","o","n","s">>, "cicd">>,
    <<<<"k","8","s">>, <<"k","u","b","e","r","n","e","t","e","s">>, "devops">>,
    <<<<"k","u","b","e","r","n","e","t","e","s">>, <<"k","u","b","e","r","n","e","t","e","s">>, "devops">>,
    <<<<"t","e","r","r","a","f","o","r","m">>, <<"t","e","r","r","a","f","o","r","m">>, "iac">>,
    <<<<"p","r","i","s","m","a">>, <<"p","r","i","s","m","a">>, "database">>>>

NPM_CATEGORY_MAPPINGS ==
  <<<<<<"r","e","a","c","t">>, "frontend">>,
    <<<<"r","e","a","c","t","-","d","o","m">>, "frontend">>,
    <<<<"v","u","e">>, "frontend">>,
    <<<<"@","a","n","g","u","l","a","r","/","c","o","r","e">>, "frontend">>,
    <<<<"s","v","e","l","t","e">>, "frontend">>,
    <<<<"e","x","p","r","e","s","s">>, "backend">>,
    <<<<"f","a","s","t","i","f","y">>, "backend">>,
    <<<<"@","n","e","s","t","j","s","/","c","o","r","e">>, "backend">>,
    <<<<"k","o","a">>, "backend">>,
    <<<<"h","o","n","o">>, "backend">>,
    <<<<"@","p","r","i","s","m","a","/","c","l","i","e","n","t">>, "database">>,
    <<<<"d","r","i","z","z","l","e","-","o","r","m">>, "database">>,
    <<<<"p","g">>, "database">>,
    <<<<"m","y","s","q","l","2">>, "database">>,
    <<<<"m","o","n","g","o","d","b">>, "database">>,
    <<<<"m","o","n","g","o","o","s","e">>, "database">>,
    <<<<"r","e","d","i","s">>, "database">>,
    <<<<"i","o","r","e","d","i","s">>, "database">>,
    <<<<"o","p","e","n","a","i">>, "ai">>,
    <<<<"l","a","n","g","c","h","a","i","n">>, "ai">>,
    <<<<"@","l","a","n","g","c","h","a","i","n","/","c","o","r","e">>, "ai">>,
    <<<<"@","a","n","t","h","r","o","p","i","c","-","a","i","/","s","d","k">>, "ai">>,
    <<<<"s","o","c","k","e","t",".","i","o">>, "realtime">>,
    <<<<"s","o","c","k","e","t",".","i","o","-","c","l","i","e","n","t">>, "realtime">>,
    <<<<"w","s">>, "realtime">>,
    <<<<"b","u","l","l","m","q">>, "queue">>,
    <<<<"b","u","l","l">>, "queue">>,
    <<<<"b","e","e","-","q","u","e","u","e">>, "queue">>,
    <<<<"a","m","q","p","l","i","b">>, "queue">>,
    <<<<"j","e","s","t">>, "testing">>,
    <<<<"v","i","t","e","s","t">>, "testing">>,
    <<<<"p","l","a","y","w","r","i","g","h","t">>, "testing">>,
    <<<<"@","p","l","a","y","w","r","i","g","h","t","/","t","e","s","t">>, "testing">>,
    <<<<"c","y","p","r","e","s","s">>, "testing">>,
    <<<<"p","a","s","s","p","o","r","t">>, "auth">>,
    <<<<"n","e","x","t","-","a","u","t","h">>, "auth">>,
    <<<<"@","a","u","t","h","/","c","o","r","e">>, "auth">>,
    <<<<"g","r","a","p","h","q","l">>, "graphql">>,
    <<<<"@","a","p","o","l","l","o","/","s","e","r","v","e","r">>, "graphql">>,
    <<<<"@","a","p","o","l","l","o","/","c","l","i","e","n","t">>, "graphql">>>>

NPM_FRAMEWORK_MAPPINGS ==
  <<<<<<"n","e","x","t">>, <<"n","e","x","t","j","s">>>>,
    <<<<"r","e","a","c","t">>, <<"r","e","a","c","t">>>>,
    <<<<"v","u","e">>, <<"v","u","e">>>>,
    <<<<"@","a","n","g","u","l","a","r","/","c","o","r","e">>, <<"a","n","g","u","l","a","r">>>>,
    <<<<"e","x","p","r","e","s","s">>, <<"e","x","p","r","e","s","s">>>>,
    <<<<"f","a","s","t","i","f","y">>, <<"f","a","s","t","i","f","y">>>>,
    <<<<"@","n","e","s","t","j","s","/","c","o","r","e">>, <<"n","e","s","t","j","s">>>>,
    <<<<"s","o","c","k","e","t",".","i","o">>, <<"s","o","c","k","e","t","i","o">>>>,
    <<<<"t","a","i","l","w","i","n","d","c","s","s">>, <<"t","a","i","l","w","i","n","d","c","s","s">>>>,
    <<<<"@","p","r","i","s","m","a","/","c","l","i","e","n","t">>, <<"p","r","i","s","m","a">>>>,
    <<<<"d","r","i","z","z","l","e","-","o","r","m">>, <<"d","r","i","z","z","l","e">>>>>>

\* self.categories, every flag False
TsNoCategories ==
  [c \in {"frontend", "backend", "mobile", "database", "devops", "ai",
          "realtime", "queue", "graphql", "auth", "testing"} |-> FALSE]

\* _set_category
TsSetCategory(categories, category) ==
  LET main_category ==
        CASE category \in {"iac", "cicd"} -> "devops"
          [] category = "styling" -> "frontend"
          [] OTHER -> category
  IN IF main_category \in DOMAIN categories
     THEN [categories EXCEPT ![main_category] = TRUE]
     ELSE categories

\* _set_category for each category of a sequence in turn
RECURSIVE TsSetCategories(_, _)
TsSetCategories(categories, todo) ==
  IF todo = <<>> THEN categories
  ELSE TsSetCategories(TsSetCategory(categories, Head(todo)), Tail(todo))

\* Python s.startswith(prefix)
StartsWith(s, prefix) ==
  Len(prefix) <= Len(s) /\ SubSeq(s, 1, Len(prefix)) = prefix

\* _parse_dependencies: the test of the category loop
TsMatchesCategory(pattern, dep_name) ==
  pattern = dep_name \/ StartsWith(dep_name, pattern \o <<"/">>)

\* _parse_dependencies: the framework test, made a substring test
TsMatchesFrameworkBySubstring(pattern, dep_name) == IsSubstr(pattern, dep_name)

\* _parse_dependencies: the test of the framework loop
TsMatchesFramework(pattern, dep_name) == pattern = dep_name

\* detection.configFiles, as the list was appended to
TsConfigFilesUnsorted(config_files) == config_files

\* detection.configFiles: sorted(set(self.config_files))
TsConfigFiles(config_files) == SortSet(Range(config_files))

TsNone == [none |-> TRUE]

\* The scanner is not running.
TsIdle ==
  /\ ts_pc = "off"
  /\ ts_config_files = <<>>
  /\ ts_languages = {}
  /\ ts_frameworks = {}
  /\ ts_databases = <<>>
  /\ ts_tools = <<>>
  /\ ts_dependencies = NoDependencies
  /\ ts_categories = TsNoCategories
  /\ ts_result = TsNone
  /\ ts_exit = -1

\* main: the scanner is run on the workspace once the analyzer has ended;
\* TechstackScanner.__init__ has set the fields to the values they have.
TsInit ==
  /\ ts_pc = "off"
  /\ wa_pc \in {"exited", "crashed"}
  /\ ts_pc' = "scan"
  /\ UNCHANGED <<ts_config_files, ts_languages, ts_frameworks, ts_databases,
                 ts_tools, ts_dependencies, ts_categories, ts_result, ts_exit>>
  /\ UNCHANGED tsOthers

\* scan(): the existence test
TsScan ==
  /\ ts_pc = "scan"
  /\ IF ~workspace.exists
     THEN /\ ts_result' = [success |-> FALSE, error |-> "Workspace not found"]
          /\ ts_pc' = "returned"
     ELSE /\ ts_pc' = "scan_config_files"
          /\ UNCHANGED ts_result
  /\ UNCHANGED <<ts_config_files, ts_languages, ts_frameworks, ts_databases,
                 ts_tools, ts_dependencies, ts_categories, ts_exit>>
  /\ UNCHANGED tsOthers

TsScanConfigFiles ==
  /\ ts_pc = "scan_config_files"
  /\ LET rows == PresentRows(CONFIG_TO_LANGUAGE)
     IN /\ ts_config_files' = ts_config_files \o Keys(rows)
        /\ ts_languages' = ts_languages \cup {rows[i][2] : i \in 1..Len(rows)}
  /\ ts_pc' = "scan_framework_markers"
  /\ UNCHANGED <<ts_frameworks, ts_databases, ts_tools, ts_dependencies,
                 ts_categories, ts_result, ts_exit>>
  /\ UNCHANGED tsOthers

TsScanFrameworkMarkers ==
  /\ ts_pc = "scan_framework_markers"
  /\ LET rows == PresentRows(FRAMEWORK_MARKERS)
     IN /\ ts_config_files' = ts_config_files \o Keys(rows)
        /\ ts_frameworks' = ts_frameworks \cup {rows[i][2] : i \in 1..Len(rows)}
        /\ ts_categories' =
             TsSetCategories(ts_categories, [i \in 1..Len(rows) |-> rows[i][3]])
  /\ ts_pc' = "scan_directories"
  /\ UNCHANGED <<ts_languages, ts_databases, ts_tools, ts_dependencies,
                 ts_result, ts_exit>>
  /\ UNCHANGED tsOthers

TsScanDirectories ==
  /\ ts_pc = "scan_directories"
  /\ LET rows == SelectSeq(DIRECTORY_MARKERS, LAMBDA row : PathIsDir(row[1]))
     IN /\ ts_config_files' =
             ts_config_files \o [i \in 1..Len(rows) |-> rows[i][1] \o <<"/">>]
        /\ ts_frameworks' = ts_frameworks \cup {rows[i][2] : i \in 1..Len(rows)}
        /\ ts_categories' =
             TsSetCategories(ts_categories, [i \in 1..Len(rows) |-> rows[i][3]])
        /\ ts_tools' = ts_tools \o [i \in 1..Len(rows) |-> rows[i][2]]
  /\ ts_pc' = "parse_dependencies"
  /\ UNCHANGED <<ts_languages, ts_databases, ts_dependencies, ts_result, ts_exit>>
  /\ UNCHANGED tsOthers

\* _parse_dependencies. json.load of something that is not an object makes
\* data.get raise AttributeError, which the except clause does not catch.
TsParseDependencies ==
  /\ ts_pc = "parse_dependencies"
  /\ IF PathExists(PackageJson) /\ workspace.pkg = "nonobject"
     THEN /\ ts_pc' = "crashed"
          /\ ts_exit' = 1
          /\ UNCHANGED <<ts_dependencies, ts_frameworks, ts_categories>>
     ELSE LET all_deps == IF PathExists(PackageJson) /\ workspace.pkg = "valid"
                          THEN workspace.deps ELSE {}
              matched ==
                SelectSeq(NPM_CATEGORY_MAPPINGS,
                          LAMBDA row : \E dep_name \in all_deps :
                                         TsMatchesCategory(row[1], dep_name))
              mobile ==
                (IF PathExists(PubspecYaml) THEN <<"mobile">> ELSE <<>>)
                  \o (IF PathExists(<<"P","o","d","f","i","l","e">>)
                      THEN <<"mobile">> ELSE <<>>)
                  \o (IF \/ PathExists(<<"b","u","i","l","d",".","g","r","a","d","l","e">>)
                         \/ PathExists(<<"b","u","i","l","d",".","g","r","a","d","l","e",
                                         ".","k","t","s">>)
                      THEN <<"mobile">> ELSE <<>>)
          IN /\ ts_pc' = "build_result"
             /\ ts_exit' = ts_exit
             /\ ts_dependencies' =
                  IF PathExists(PackageJson) /\ workspace.pkg = "valid"
                  THEN [m \in {"npm"} |-> all_deps]
                  ELSE ts_dependencies
             /\ ts_frameworks' =
                  ts_frameworks
                    \cup {NPM_FRAMEWORK_MAPPINGS[i][2] :
                            i \in {j \in 1..Len(NPM_FRAMEWORK_MAPPINGS) :
                                     \E dep_name \in all_deps :
                                       TsMatchesFramework(NPM_FRAMEWORK_MAPPINGS[j][1],
                                                          dep_name)}}
                    \cup (IF PathExists(PubspecYaml)
                          THEN {<<"f","l","u","t","t","e","r">>} ELSE {})
             /\ ts_categories' =
                  TsSetCategories(ts_categories,
                                  [i \in 1..Len(matched) |-> matched[i][2]] \o mobile)
  /\ UNCHANGED <<ts_config_files, ts_languages, ts_databases, ts_tools, ts_result>>
  /\ UNCHANGED tsOthers

\* db_frameworks of _build_result
DbFrameworks ==
  {<<"p","r","i","s","m","a">>, <<"d","r","i","z","z","l","e">>,
   <<"m","o","n","g","o","d","b">>, <<"p","o","s","t","g","r","e","s","q","l">>,
   <<"m","y","s","q","l">>}

TsBuildResult ==
  /\ ts_pc = "build_result"
  /\ LET databases == ts_databases \o SortSet(ts_frameworks \cap DbFrameworks)
     IN /\ ts_databases' = databases
        /\ ts_result' =
             [success |-> TRUE,
              detection |->
                [configFiles |-> TsConfigFiles(ts_config_files),
                 languages |-> SortSet(ts_languages),
                 frameworks |-> SortSet(ts_frameworks),
                 databases |-> SortSet(Range(databases)),
                 tools |-> SortSet(Range(ts_tools)),
                 dependencies |-> ts_dependencies],
              categories |-> ts_categories]
  /\ ts_pc' = "returned"
  /\ UNCHANGED <<ts_config_files, ts_languages, ts_frameworks, ts_tools,
                 ts_dependencies, ts_categories, ts_exit>>
  /\ UNCHANGED tsOthers

\* main: sys.exit(0 if result.get("success") else 1)
TsMain ==
  /\ ts_pc = "returned"
  /\ ts_exit' = IF ts_result.success THEN 0 ELSE 1
  /\ ts_pc' = "exited"
  /\ UNCHANGED <<ts_config_files, ts_languages, ts_frameworks, ts_databases,
                 ts_tools, ts_dependencies, ts_categories, ts_result>>
  /\ UNCHANGED tsOthers

\* ------------------------------------------------------------------------
\* Specifications
\* ------------------------------------------------------------------------

\* workspace_analyzer.py, one run.
WaNext ==
  \/ WaAnalyze
  \/ WaScanConfigFiles
  \/ WaScanFrameworkMarkers
  \/ WaScanDirectories
  \/ WaParseDependencies
  \/ WaBuildResult
  \/ WaMain

AnalyzerInit == WaInit /\ SmIdle /\ ClIdle /\ VaIdle /\ SsIdle /\ VkIdle /\ LtIdle /\ TsIdle

SpecAnalyzer == AnalyzerInit /\ [][WaNext]_vars

\* skills_manager.py, any sequence of enable and disable commands.
SmNext == SmEnableCommand \/ SmDisableCommand

SkillsInit == SmInit /\ WaIdle /\ ClIdle /\ VaIdle /\ SsIdle /\ VkIdle /\ LtIdle /\ TsIdle

SpecSkills == SkillsInit /\ [][SmNext]_vars

\* checklist.py, one run.
ClNext ==
  \/ ClMain
  \/ ClRunScript
  \/ ClScriptEnds
  \/ ClCoreDone
  \/ ClPerformanceDone
  \/ ClSummary

ChecklistInit == ClInit /\ WaIdle /\ SmIdle /\ VaIdle /\ SsIdle /\ VkIdle /\ LtIdle /\ TsIdle

SpecChecklist == ChecklistInit /\ [][ClNext]_vars

\* verify_all.py, one run.
VaNext ==
  \/ VaMain
  \/ VaNextSuite
  \/ VaRunScript
  \/ VaScriptEnds
  \/ VaSuiteDone
  \/ VaFinalReport

VerifyAllInit == VaInit /\ WaIdle /\ SmIdle /\ ClIdle /\ SsIdle /\ VkIdle /\ LtIdle /\ TsIdle

SpecVerifyAll == VerifyAllInit /\ [][VaNext]_vars

\* One run of one of the two orchestrators.
OrchestratorsNext ==
  \/ ClMain
  \/ ClRunScript
  \/ ClScriptEnds
  \/ ClCoreDone
  \/ ClPerformanceDone
  \/ ClSummary
  \/ VaMain
  \/ VaNextSuite
  \/ VaRunScript
  \/ VaScriptEnds
  \/ VaSuiteDone
  \/ VaFinalReport

OrchestratorsInit ==
  /\ (ClInit /\ VaIdle) \/ (VaInit /\ ClIdle)
  /\ WaIdle /\ SmIdle /\ SsIdle /\ VkIdle /\ LtIdle /\ TsIdle

SpecOrchestrators == OrchestratorsInit /\ [][OrchestratorsNext]_vars

\* security_scan.py, one run.
SsNext ==
  \/ SsMain
  \/ SsDeps
  \/ SsSecrets
  \/ SsPatterns
  \/ SsFinish

SecurityScanInit == SsInit /\ WaIdle /\ SmIdle /\ ClIdle /\ VaIdle /\ VkIdle /\ LtIdle /\ TsIdle

SpecSecurityScan == SecurityScanInit /\ [][SsNext]_vars

\* validate_kit.py on a kit path
VkNext ==
  \/ VkValidateAll
  \/ VkValidateStructure
  \/ VkValidateArchitectureMd
  \/ VkValidateRulesFolder
  \/ VkValidateRuleFile
  \/ VkRuleFilesDone
  \/ VkValidateAgents
  \/ VkSkillsIsNoDirectory
  \/ VkValidateSkills
  \/ VkValidateWorkflows
  \/ VkValidatePathReferences
  \/ VkMain

ValidateKitInit == VkInit /\ WaIdle /\ SmIdle /\ ClIdle /\ VaIdle /\ SsIdle /\ LtIdle /\ TsIdle

SpecValidateKit == ValidateKitInit /\ [][VkNext]_vars

\* One linter on a project
LtNext == I18nMain \/ A11yMain \/ ApiMain \/ SeoMain \/ SchemaMain

LintersInit ==
  LtInit /\ WaIdle /\ SmIdle /\ ClIdle /\ VaIdle /\ SsIdle /\ VkIdle /\ TsIdle

SpecLinters == LintersInit /\ [][LtNext]_vars

\* workspace_analyzer.py and then techstack_scanner.py on one workspace
ScannersNext ==
  \/ WaAnalyze
  \/ WaScanConfigFiles
  \/ WaScanFrameworkMarkers
  \/ WaScanDirectories
  \/ WaParseDependencies
  \/ WaBuildResult
  \/ WaMain
  \/ TsInit
  \/ TsScan
  \/ TsScanConfigFiles
  \/ TsScanFrameworkMarkers
  \/ TsScanDirectories
  \/ TsParseDependencies
  \/ TsBuildResult
  \/ TsMain

ScannersInit ==
  WaInit /\ TsIdle /\ SmIdle /\ ClIdle /\ VaIdle /\ SsIdle /\ VkIdle /\ LtIdle

SpecScanners == ScannersInit /\ [][ScannersNext]_vars

\* C1: in every result of an existing workspace, every CORE_SKILLS entry is
\* in recommendations.enable and none is in recommendations.disable.
C1_CoreSkillsAlwaysEnabled ==
  (wa_pc \in {"returned", "exited"} /\ wa_result.success) =>
    \A s \in Range(CORE_SKILLS) :
      /\ s \in Range(wa_result.recommendations.enable)
      /\ s \notin Range(wa_result.recommendations.disable)

\* A finished analysis of a workspace with markers that recommends
\* non-core skills and disables others.
C1_Witness ==
  /\ wa_pc = "exited"
  /\ wa_result.success
  /\ workspace.present # {}
  /\ Len(wa_result.recommendations.enable) > Len(CORE_SKILLS)
  /\ Len(wa_result.recommendations.disable) > 0

\* C2: after any sequence of enable and disable commands, every skill that
\* existed at the start is in exactly one of skills/ and skills/.disabled/.
C2_SkillsNeverLostNorDuplicated ==
  \A s \in sm_initial.active \cup sm_initial.disabled :
    (s \in active) # (s \in disabled)

\* A skill that started active sits in .disabled/ after a later enable
\* command moved another skill.
C2_Witness ==
  /\ sm_last.cmd = "enable"
  /\ sm_last.ok
  /\ sm_initial.active \cap disabled # {}
  /\ sm_initial.disabled \cap active # {}

\* ------------------------------------------------------------------------
\* checklist.py: properties
\* ------------------------------------------------------------------------

ClPriority(name) == ClCheck(name).priority

ClPerformanceNames ==
  {PERFORMANCE_CHECKS[i].name : i \in 1..Len(PERFORMANCE_CHECKS)}

\* The check has been run or skipped.
ClAttempted(name) == \E i \in 1..Len(cl_results) : cl_results[i].name = name

\* A required check failed, unskipped, under --stop-on-fail.
ClCriticalFailure(i) ==
  /\ cl_args.stop_on_fail
  /\ ClCheck(cl_results[i].name).required
  /\ ~cl_results[i].passed
  /\ ~cl_results[i].skipped

\* C3: checks start in ascending priority order, each one finished before
\* the next starts, and a performance check (P6, P7) starts only after every
\* core check has been run or skipped.
C3_PriorityOrder ==
  /\ \A i, j \in 1..Len(cl_log) :
       i < j =>
         \/ ClPriority(cl_log[i].name) < ClPriority(cl_log[j].name)
         \/ /\ j = i + 1
            /\ cl_log[i] = [event |-> "start", name |-> cl_log[j].name]
            /\ cl_log[j].event = "finish"
  /\ \A i \in 1..(Len(cl_log) - 1) :
       cl_log[i].event = "start" =>
         cl_log[i + 1] = [event |-> "finish", name |-> cl_log[i].name]
  /\ \A j \in 1..Len(cl_log) :
       cl_log[j].name \in ClPerformanceNames =>
         \A k \in 1..Len(CORE_CHECKS) :
           \E i \in 1..(j - 1) :
             /\ cl_log[i].name = CORE_CHECKS[k].name
             /\ cl_log[i].event \in {"finish", "skip"}

\* A core script has run to its end and a performance script has started.
C3_Witness ==
  \E i, j \in 1..Len(cl_log) :
    /\ i < j
    /\ cl_log[i].event = "finish"
    /\ cl_log[i].name \notin ClPerformanceNames
    /\ cl_log[j].event = "start"
    /\ cl_log[j].name \in ClPerformanceNames

\* C4: under --stop-on-fail a failed, unskipped required check is the last
\* result: the run has printed the summary and exited with status 1 and no
\* check was started after it. A run without such a failure does not end
\* before all its core checks (and the performance checks it has to run)
\* have been run or skipped, whatever non-required checks failed and
\* whatever required checks were skipped.
C4_StopOnFirstCriticalFailure ==
  /\ \A i \in 1..Len(cl_results) :
       ClCriticalFailure(i) =>
         /\ i = Len(cl_results)
         /\ cl_log[Len(cl_log)] = [event |-> "finish", name |-> cl_results[i].name]
         /\ cl_running = NoCheck
         /\ cl_pc = "exited"
         /\ cl_summary
         /\ cl_exit = 1
  /\ (/\ cl_pc = "exited"
      /\ cl_args.project_exists
      /\ ~\E i \in 1..Len(cl_results) : ClCriticalFailure(i))
       => /\ \A c \in Range(ClChecksToRun(cl_args.quick)) : ClAttempted(c.name)
          /\ ClRunsPerformance(cl_args) =>
               \A name \in ClPerformanceNames : ClAttempted(name)

\* Under --stop-on-fail, Security Scan was skipped for want of its script,
\* the run went on, Lint Check failed and the run stopped there.
C4_Witness ==
  /\ cl_args.stop_on_fail
  /\ Len(cl_results) = 2
  /\ cl_results[1].name = "Security Scan"
  /\ cl_results[1].skipped
  /\ cl_results[2].name = "Lint Check"
  /\ ~cl_results[2].passed
  /\ cl_pc = "exited"
  /\ cl_exit = 1

\* C5: with --quick nothing but Security Scan, Lint Check and Test Runner
\* is ever run or skipped, with or without --url.
C5_QuickRunsOnlyQuickChecks ==
  cl_args.quick =>
    /\ \A i \in 1..Len(cl_results) : cl_results[i].name \in QUICK_CHECKS
    /\ \A i \in 1..Len(cl_launched) : cl_launched[i].script \in QUICK_CHECKS
    /\ \A i \in 1..Len(cl_log) : cl_log[i].name \in QUICK_CHECKS

\* A finished --quick run with a URL that launched a script.
C5_Witness ==
  /\ cl_args.quick
  /\ cl_args.url = "given"
  /\ cl_pc = "exited"
  /\ Len(cl_results) = 3
  /\ Len(cl_launched) > 0

\* The URL goes to the needs_url checks and to no other.
ClUrlOnlyToNeedsUrl ==
  \A i \in 1..Len(cl_launched) :
    /\ (cl_launched[i].url # "none") = ClCheck(cl_launched[i].script).needs_url
    /\ cl_launched[i].url \in {"none", cl_args.url}

\* C6 as stated: at the end of a run on an existing project, Lighthouse
\* Audit and E2E Tests have been run or skipped exactly when --url was
\* provided and --quick was not set, and only they received the URL.
C6_PerformanceIffUrlProvided ==
  (cl_pc = "exited" /\ cl_args.project_exists) =>
    /\ \A name \in ClPerformanceNames :
         ClAttempted(name) = (cl_args.url # "none" /\ ~cl_args.quick)
    /\ ClUrlOnlyToNeedsUrl

\* C6 amended: Lighthouse Audit and E2E Tests are run or skipped only when
\* a non-empty --url is given and --quick is not set, and then in every run
\* that ends without a --stop-on-fail critical failure; the URL goes to the
\* needs_url checks only.
C6_PerformanceNeedsUrl ==
  /\ \A name \in ClPerformanceNames :
       ClAttempted(name) => (cl_args.url = "given" /\ ~cl_args.quick)
  /\ (/\ cl_pc = "exited"
      /\ cl_args.project_exists
      /\ ~\E i \in 1..Len(cl_results) : ClCriticalFailure(i)
      /\ cl_args.url = "given"
      /\ ~cl_args.quick)
       => \A name \in ClPerformanceNames : ClAttempted(name)
  /\ ClUrlOnlyToNeedsUrl

\* A finished run that launched a core script without the URL and a
\* performance script with it.
C6_Witness ==
  /\ cl_pc = "exited"
  /\ \E i, j \in 1..Len(cl_launched) :
       /\ cl_launched[i].url = "none"
       /\ cl_launched[j].url = "given"
       /\ cl_launched[j].script \in ClPerformanceNames

\* ------------------------------------------------------------------------
\* verify_all.py: properties
\* ------------------------------------------------------------------------

\* The check has been run or skipped.
VaAttempted(name) == \E i \in 1..Len(va_results) : va_results[i].name = name

\* C7: without --stop-on-fail, when the run on an existing project has
\* printed its final report, every check of every VERIFICATION_SUITE
\* category has been run or skipped, E2E Testing excepted under --no-e2e.
C7_CompleteValidation ==
  (/\ va_pc = "exited"
   /\ va_args.project_exists
   /\ ~va_args.stop_on_fail)
    => \A c \in VaAllChecks :
         (c.category = "E2E Testing" /\ va_args.no_e2e) \/ VaAttempted(c.name)

\* ------------------------------------------------------------------------
\* security_scan.py: properties
\* ------------------------------------------------------------------------

\* C8: when a scan has run, the exit status is 1 exactly when
\* summary.critical > 0 and 0 otherwise; with high or medium findings alone
\* (overall status HIGH RISK or REVIEW NEEDED) it is 0.
C8_ExitOneIffCritical ==
  (ss_pc = "exited" /\ ss_args.is_dir) =>
    /\ ss_exit = IF ss_report.summary.critical > 0 THEN 1 ELSE 0
    /\ ss_report.summary.overall_status \in {"HIGH RISK", "REVIEW NEEDED"}
         => ss_exit = 0

\* A full scan with high findings and no critical one has exited with 0.
C8_Witness ==
  /\ ss_pc = "exited"
  /\ ss_args.scan_type = "all"
  /\ ss_report.summary.overall_status = "HIGH RISK"
  /\ ss_report.summary.high > 1
  /\ ss_exit = 0

\* ------------------------------------------------------------------------
\* validate_kit.py: properties
\* ------------------------------------------------------------------------

\* The failed entries of a severity.
VkFailed(severity) ==
  {i \in 1..Len(vk_results) :
     ~vk_results[i].passed /\ vk_results[i].severity = severity}

\* The kit lacks something required: a required directory, ARCHITECTURE.md
\* or a rule file.
VkLacksRequired ==
  /\ vk_kit.exists
  /\ \/ \E i \in 1..Len(REQUIRED_DIRS) : vk_kit.dirs[REQUIRED_DIRS[i]] # "dir"
     \/ vk_kit.arch = "absent"
     \/ \E i \in 1..Len(REQUIRED_RULE_FILES) :
          vk_kit.rule_files[REQUIRED_RULE_FILES[i]] = "absent"

\* C9: validate_all returns true exactly when the results hold no failed
\* entry of severity ERROR, and the exit status is 0 exactly then; failed
\* WARNING entries and missing recommended directories thus never fail a
\* kit, while a kit without a required directory, ARCHITECTURE.md or a rule
\* file never ends with status 0.
C9_PassesIffNoFailedError ==
  /\ vk_pc \in {"returned", "exited"} => (vk_success <=> VkFailed("ERROR") = {})
  /\ vk_pc = "exited" => (vk_exit = 0 <=> vk_success)
  /\ (vk_pc \in {"returned", "exited"} /\ VkLacksRequired) => ~vk_success
  /\ (vk_pc \in {"exited", "crashed"} /\ VkLacksRequired) => vk_exit = 1

\* A kit without workflows/ and with a failed WARNING entry has passed.
C9_Witness ==
  /\ vk_pc = "exited"
  /\ vk_exit = 0
  /\ vk_kit.dirs["workflows"] = "none"
  /\ VkFailed("WARNING") # {}

\* The field is on a line of the frontmatter the content starts with: between
\* the opening "---" and the closing one, or after the opening one when
\* nothing closes it.
HasFrontmatterField(content, field) ==
  /\ StartsWithDashes(content)
  /\ InContent(field, IF FrontmatterEnd(content) = 0 THEN Tail(content)
                      ELSE Frontmatter(content))

\* The rule file has no failed entry.
VkAccepted(rule_file) ==
  \A i \in 1..Len(vk_results) :
    (vk_results[i].category = "rules" /\ vk_results[i].subject = rule_file)
      => vk_results[i].passed

\* C10: after the turn of the loop for a rule file, GEMINI.md is accepted
\* only if it starts with "---" and has a trigger: frontmatter field,
\* CURSOR.md only if it starts with "---" and has a description: or
\* alwaysApply: frontmatter field, CLAUDE.md and AGENTS.md are accepted
\* whenever they exist, and an absent file has a failed ERROR entry.
C10_RuleFileFrontmatter ==
  (vk_pc = "rule_files" /\ vk_rule_file # "none") =>
    IF vk_content = Absent
    THEN \E i \in VkFailed("ERROR") :
           /\ vk_results[i].kind = "Missing required rule file"
           /\ vk_results[i].subject = vk_rule_file
    ELSE CASE vk_rule_file = "GEMINI.md" ->
                VkAccepted(vk_rule_file)
                  => HasFrontmatterField(vk_content, "trigger:")
           [] vk_rule_file = "CURSOR.md" ->
                VkAccepted(vk_rule_file)
                  => \/ HasFrontmatterField(vk_content, "description:")
                     \/ HasFrontmatterField(vk_content, "alwaysApply:")
           [] OTHER -> VkAccepted(vk_rule_file)

\* ------------------------------------------------------------------------
\* The linters: properties
\* ------------------------------------------------------------------------

\* The locale files that json.loads accepts.
I18nParsed == SelectSeq(lt_project.files, LAMBDA f : f.content # Unparsable)

\* The flattened keys of a language in a namespace: those of its file read
\* last, none without such a file.
I18nKeys(lang, stem) ==
  UNION {flatten_keys(I18nParsed[i].content) :
           i \in {k \in 1..Len(I18nParsed) :
                    /\ I18nParsed[k].lang = lang /\ I18nParsed[k].stem = stem
                    /\ \A j \in (k + 1)..Len(I18nParsed) :
                         ~(I18nParsed[j].lang = lang /\ I18nParsed[j].stem = stem)}}

\* C11: with two or more languages, check_locale_completeness reports "All
\* locales have matching keys" and raises no issue only if, in every
\* namespace, every language has exactly the same flattened key set.
C11_MatchingOnlyIfSameKeys ==
  (/\ lt_pc = "exited"
   /\ lt_script = "i18n_checker"
   /\ Cardinality({I18nParsed[i].lang : i \in 1..Len(I18nParsed)}) >= 2
   /\ "All locales have matching keys" \in Range(lt_locale_result.passed)
   /\ lt_locale_result.issues = <<>>)
    => \A i, j, k \in 1..Len(I18nParsed) :
         I18nKeys(I18nParsed[i].lang, I18nParsed[k].stem)
           = I18nKeys(I18nParsed[j].lang, I18nParsed[k].stem)

\* ------------------------------------------------------------------------
\* The two scanners: properties
\* ------------------------------------------------------------------------

\* techstack_scanner.py has run _parse_dependencies to its end on a
\* package.json that holds a JSON object.
TsParsedPackage ==
  /\ ts_pc \in {"build_result", "returned", "exited"}
  /\ PathExists(PackageJson)
  /\ workspace.pkg = "valid"

\* The frameworks that techstack_scanner.py takes from the files and
\* directories of the workspace root.
TsMarkerFrameworks ==
  {FRAMEWORK_MARKERS[i][2] :
     i \in {j \in 1..Len(FRAMEWORK_MARKERS) : PathExists(FRAMEWORK_MARKERS[j][1])}}
    \cup {DIRECTORY_MARKERS[i][2] :
            i \in {j \in 1..Len(DIRECTORY_MARKERS) : PathIsDir(DIRECTORY_MARKERS[j][1])}}
    \cup (IF PathExists(PubspecYaml) THEN {<<"f","l","u","t","t","e","r">>} ELSE {})

\* The category flag of a mapping-table entry is set.
TsCategorySet(category) == TsSetCategory(ts_categories, category) = ts_categories

\* C12 as stated: in both scanners a dependency triggers a mapping-table
\* entry whenever the pattern of the entry is a substring of its name.
C12_SubstringInBothScanners ==
  TsParsedPackage =>
    \A dep_name \in workspace.deps :
      /\ \A i \in 1..Len(NPM_DEPENDENCY_MAPPINGS) :
           IsSubstr(NPM_DEPENDENCY_MAPPINGS[i][1], dep_name)
             => Range(NPM_DEPENDENCY_MAPPINGS[i][2]) \subseteq recommended_skills
      /\ \A i \in 1..Len(NPM_FRAMEWORK_MAPPINGS) :
           IsSubstr(NPM_FRAMEWORK_MAPPINGS[i][1], dep_name)
             => NPM_FRAMEWORK_MAPPINGS[i][2] \in ts_frameworks
      /\ \A i \in 1..Len(NPM_CATEGORY_MAPPINGS) :
           IsSubstr(NPM_CATEGORY_MAPPINGS[i][1], dep_name)
             => TsCategorySet(NPM_CATEGORY_MAPPINGS[i][2])

\* C12, amended: workspace_analyzer triggers an entry whenever its pattern
\* is a substring of a dependency name. techstack_scanner triggers a
\* framework entry exactly when its pattern is a dependency name, and a
\* category entry when its pattern is a dependency name or is followed by
\* "/" at the start of one. So a name that triggers an entry of
\* techstack_scanner triggers the entries of workspace_analyzer with the
\* same pattern, and not the other way round.
C12_MatchingOfEachScanner ==
  TsParsedPackage =>
    /\ \A dep_name \in workspace.deps :
         /\ \A i \in 1..Len(NPM_DEPENDENCY_MAPPINGS) :
              IsSubstr(NPM_DEPENDENCY_MAPPINGS[i][1], dep_name)
                => Range(NPM_DEPENDENCY_MAPPINGS[i][2]) \subseteq recommended_skills
         /\ \A i \in 1..Len(NPM_CATEGORY_MAPPINGS) :
              (\/ NPM_CATEGORY_MAPPINGS[i][1] = dep_name
               \/ StartsWith(dep_name, NPM_CATEGORY_MAPPINGS[i][1] \o <<"/">>))
                => TsCategorySet(NPM_CATEGORY_MAPPINGS[i][2])
    /\ \A i \in 1..Len(NPM_FRAMEWORK_MAPPINGS) :
         NPM_FRAMEWORK_MAPPINGS[i][1] \in workspace.deps
           => NPM_FRAMEWORK_MAPPINGS[i][2] \in ts_frameworks
    /\ \A framework \in ts_frameworks \ TsMarkerFrameworks :
         \E i \in 1..Len(NPM_FRAMEWORK_MAPPINGS) :
           /\ NPM_FRAMEWORK_MAPPINGS[i][2] = framework
           /\ NPM_FRAMEWORK_MAPPINGS[i][1] \in workspace.deps
    /\ \A i \in 1..Len(NPM_FRAMEWORK_MAPPINGS), j \in 1..Len(NPM_DEPENDENCY_MAPPINGS) :
         (/\ NPM_FRAMEWORK_MAPPINGS[i][1] = NPM_DEPENDENCY_MAPPINGS[j][1]
          /\ NPM_FRAMEWORK_MAPPINGS[i][2] \in ts_frameworks \ TsMarkerFrameworks)
           => Range(NPM_DEPENDENCY_MAPPINGS[j][2]) \subseteq recommended_skills

\* Both scanners have read a package.json with the dependencies preact and
\* express: the analyzer has reacted to the pattern react, the techstack
\* scanner has not, and both have reacted to express.
C12_Witness ==
  /\ TsParsedPackage
  /\ ts_pc = "exited"
  /\ workspace.deps = {<<"p","r","e","a","c","t">>, <<"e","x","p","r","e","s","s">>}
  /\ <<"r","e","a","c","t","-","p","a","t","t","e","r","n","s">> \in recommended_skills
  /\ <<"r","e","a","c","t">> \notin ts_frameworks
  /\ ~ts_categories["frontend"]
  /\ <<"e","x","p","r","e","s","s">> \in ts_frameworks
  /\ ts_categories["backend"]

\* techstack_scanner.py has built a result for a workspace that exists.
TsHasDetection ==
  /\ ts_pc \in {"returned", "exited"}
  /\ ts_result.success

\* C13: detection.languages of techstack_scanner is exactly the set of the
\* CONFIG_TO_LANGUAGE values of the config files present in the workspace
\* root, and detection.configFiles is sorted and free of duplicates.
C13_LanguagesAndConfigFiles ==
  TsHasDetection =>
    LET languages == ts_result.detection.languages
        configFiles == ts_result.detection.configFiles
    IN /\ Range(languages) =
            {CONFIG_TO_LANGUAGE[i][2] :
               i \in {j \in 1..Len(CONFIG_TO_LANGUAGE) :
                        PathExists(CONFIG_TO_LANGUAGE[j][1])}}
       /\ \A i, j \in 1..Len(languages) : i # j => languages[i] # languages[j]
       /\ \A i \in 1..(Len(configFiles) - 1) :
            LexLess(configFiles[i], configFiles[i + 1])

\* A finished scan of a root that holds pubspec.yaml, found by two tables,
\* and pyproject.toml: two languages, and fewer configFiles than finds.
C13_Witness ==
  /\ TsHasDetection
  /\ ts_pc = "exited"
  /\ PathExists(PubspecYaml)
  /\ Len(ts_result.detection.languages) = 2
  /\ Len(ts_config_files) = 3
  /\ Len(ts_result.detection.configFiles) = 2

\* C14: a scanner given a workspace path that does not exist performs no
\* scanning step, returns success=false with an error message and exits
\* with status 1; given one that exists it returns success=true and exits
\* with status 0. Stated of both scanners once both have ended.
C14_MissingWorkspaceIsErrorValue ==
  (wa_pc \in {"exited", "crashed"} /\ ts_pc \in {"exited", "crashed"}) =>
    IF workspace.exists
    THEN /\ wa_pc = "exited"
         /\ wa_result.success
         /\ wa_exit = 0
         /\ ts_pc = "exited"
         /\ ts_result.success
         /\ ts_exit = 0
    ELSE /\ wa_pc = "exited"
         /\ DOMAIN wa_result = {"success", "error"}
         /\ ~wa_result.success
         /\ wa_exit = 1
         /\ config_files_found = <<>> /\ recommended_skills = {}
         /\ ts_pc = "exited"
         /\ DOMAIN ts_result = {"success", "error"}
         /\ ~ts_result.success
         /\ ts_exit = 1
         /\ ts_config_files = <<>> /\ ts_frameworks = {}

\* ------------------------------------------------------------------------
\* The linters: exit status
\* ------------------------------------------------------------------------

\* C15: schema_validator exits with status 0 whatever the number of issues,
\* also with 10 issues or more, where the JSON has passed false.
C15_SchemaValidatorExitsZero ==
  (lt_pc = "exited" /\ lt_script = "schema_validator") => lt_exit = 0

\* schema_validator has ended on schemas with 10 issues or more.
C15_Witness ==
  /\ lt_pc = "exited"
  /\ lt_script = "schema_validator"
  /\ lt_project.files # <<>>
  /\ lt_output.total_issues >= 10
  /\ ~lt_output.passed
  /\ lt_exit = 0

\* The exit status of a linter that has ended agrees with passed of its JSON.
LinterAgrees ==
  /\ lt_exit = 0 <=> lt_output.passed
  /\ lt_exit = 1 <=> ~lt_output.passed

\* C17 as stated: for each of the five linters the exit status is 0 exactly
\* when passed of the JSON is true, and 1 exactly when it is false.
C17_ExitFollowsPassedInAllFive ==
  (lt_pc = "exited" /\ lt_script \in LinterScripts) => LinterAgrees

\* C17, amended: for a11y_checker, api_validator, i18n_checker and
\* seo_checker the exit status is 0 exactly when passed of the JSON is true
\* and 1 exactly when it is false; schema_validator exits with status 0 also
\* when passed is false.
C17_ExitFollowsPassedButSchema ==
  lt_pc = "exited" =>
    IF lt_script = "schema_validator" THEN lt_exit = 0 ELSE LinterAgrees

\* A linter other than schema_validator has ended with passed false and
\* exit status 1.
C17_Witness ==
  /\ lt_pc = "exited"
  /\ lt_script \in {"a11y_checker", "api_validator", "i18n_checker", "seo_checker"}
  /\ ~lt_output.passed
  /\ lt_exit = 1

\* ------------------------------------------------------------------------
\* checklist.py and verify_all.py: launched scripts that do not end
\* ------------------------------------------------------------------------

\* The result records a subprocess.TimeoutExpired or another exception of
\* subprocess.run.
TimedOutOrRaised(result) == result.error \in {"Timeout", "exception"}

\* C16: in checklist.py and verify_all.py a launched script that times out
\* or raises is recorded as passed=false, skipped=false with an error
\* value; the orchestrator then goes on to the next check unless
\* --stop-on-fail is set and the check is required; and a run that has
\* ended with such a result has printed its final report, where the result
\* counts as a failed check, and has exited with status 1.
C16_TimeoutIsFailedCheckAndRunGoesOn ==
  /\ [][/\ (cl_running # NoCheck /\ cl_running' = NoCheck) =>
             LET check == Head(cl_todo)
                 result == cl_results'[Len(cl_results')]
             IN /\ Len(cl_results') = Len(cl_results) + 1
                /\ result.name = check.name
                /\ TimedOutOrRaised(result) =>
                     /\ ~result.passed /\ ~result.skipped
                     /\ ~(cl_args.stop_on_fail /\ check.required) =>
                          /\ cl_pc' = cl_pc
                          /\ cl_todo' = Tail(cl_todo)
        /\ (va_running # NoCheck /\ va_running' = NoCheck) =>
             LET check == Head(va_todo)
                 result == va_results'[Len(va_results')]
             IN /\ Len(va_results') = Len(va_results) + 1
                /\ result.name = check.name
                /\ TimedOutOrRaised(result) =>
                     /\ ~result.passed /\ ~result.skipped
                     /\ ~(va_args.stop_on_fail /\ check.required) =>
                          /\ va_pc' = va_pc
                          /\ va_todo' = Tail(va_todo)]_vars
  /\ [](/\ (cl_pc = "exited" /\ \E i \in 1..Len(cl_results) :
                                  TimedOutOrRaised(cl_results[i]))
             => cl_summary /\ ~ClAllPassed(cl_results) /\ cl_exit = 1
        /\ (va_pc = "exited" /\ \E i \in 1..Len(va_results) :
                                  TimedOutOrRaised(va_results[i]))
             => va_report /\ ~VaAllPassed(va_results) /\ va_exit = 1)

\* verify_all.py under --stop-on-fail has ended with the report and exit
\* status 1 after a check that is not required timed out and a later check,
\* run after it, raised on launch.
C16_Witness ==
  /\ va_pc = "exited"
  /\ va_args.stop_on_fail
  /\ va_report
  /\ va_exit = 1
  /\ \E i, j \in 1..Len(va_results) :
       /\ i < j
       /\ va_results[i].error = "Timeout"
       /\ va_results[j].error = "exception"
  /\ \A i \in 1..Len(va_results) :
       TimedOutOrRaised(va_results[i])
         => ~va_results[i].passed /\ ~va_results[i].skipped

\* checklist.py has ended the same way.
C16_ChecklistCase ==
  /\ cl_pc = "exited"
  /\ cl_summary
  /\ cl_exit = 1
  /\ \E i, j \in 1..Len(cl_results) :
       /\ i < j
       /\ cl_results[i].error = "Timeout"
       /\ cl_results[j].passed /\ ~cl_results[j].skipped

====
